---- MODULE Spec2Model ----
(***************************************************************************)
(* A model of lpath's `match` step (src/lpath/match.py): the pathway       *)
(* container, the symbol dictionary, the two string metrics, the distance  *)
(* matrix with its on-disk cache, the hierarchical clustering and the      *)
(* representative selection / export.                                      *)
(*                                                                         *)
(* Conventions.                                                            *)
(*  - A frame is the tuple <<iteration_id, segment_id, state_id, weight>>; *)
(*    Python's step[0], step[1], step[2], step[-1] are f[1], f[2], f[3],   *)
(*    f[Len(f)].  Auxiliary columns between state_id and weight are never  *)
(*    read by the functions modelled here and are left out.                *)
(*  - A Python dict with keys 0..n-1 is the sequence of its values:        *)
(*    dictionary[x] is Lookup(dictionary, x), len(dictionary) is Len.      *)
(*  - A state string is the sequence of its characters.                    *)
(*  - A float that the code obtains as 1 - 2k/n is the exact fraction      *)
(*    <<n - 2k, n>>; IEEE division is correctly rounded, so two such       *)
(*    floats are equal exactly when the fractions are.                     *)
(*  - A call's outcome is a record whose field exc names the exception     *)
(*    raised ("none" when the call returns).                               *)
(***************************************************************************)
EXTENDS Integers, Sequences, FiniteSets, TLC

VARIABLES
    pathways,        \* the rectangular container [num_pathways, max_length, num_fields]
    dictionary,      \* state_id -> state string
    distmat,         \* the distance matrix main holds (<<>> before it exists)
    weights,         \* the weights main holds (<<>> before they exist)
    cluster_labels,  \* the cluster labels main holds (<<>> before they exist)
    fs,              \* the files on disk: a set of [path, content] records
    ret,             \* the outcome of the last call
    hist,            \* the outcomes of the calls made so far, oldest first
    proc,            \* the running process: its position, arguments and interpreter state
    stdin            \* the answers the user has typed and the program has not read yet

vars == <<pathways, dictionary, distmat, weights, cluster_labels, fs, ret, hist,
          proc, stdin>>

\* No process of the pipeline is running: the functions are called directly.
NoProc == [pc |-> "none"]

\* ------------------------------------------------------------------ bounds

\* Longest pathway of the container (frames).
MaxLen == 2
\* Number of real (non-unknown) states a dictionary holds.
MaxStates == 2
\* Number of gen_dist_matrix calls in one behaviour of the cache specification.
MaxCalls == 2

\* ----------------------------------------------------------------- helpers

Max2(a, b) == IF a >= b THEN a ELSE b
Min2(a, b) == IF a <= b THEN a ELSE b

\* Fractions <<num, den>> with den > 0.
RatEq(a, b) == a[1] * b[2] = b[1] * a[2]
RatLe(a, b) == a[1] * b[2] <= b[1] * a[2]
RatLt(a, b) == a[1] * b[2] < b[1] * a[2]
Zero == <<0, 1>>
One == <<1, 1>>

\* dictionary[x] for a dict with the keys 0..len-1.
Lookup(d, x) == d[x + 1]

\* Python's str(idx) for idx >= 0, as a sequence of characters.
Digits == <<"0", "1", "2", "3", "4", "5", "6", "7", "8", "9">>
RECURSIVE PyStr(_)
PyStr(idx) ==
    IF idx < 10 THEN <<Digits[idx + 1]>>
    ELSE PyStr(idx \div 10) \o <<Digits[(idx % 10) + 1]>>

\* The dictionary reassign_identity builds for n_states states.
identity_dictionary(n_states) ==
    [k \in 1..(n_states + 1) |->
        IF k <= n_states THEN PyStr(k - 1) ELSE <<"!">>]

\* "".join(dictionary[x] for x in seq)
RECURSIVE JoinStr(_, _)
JoinStr(d, seq) ==
    IF seq = <<>> THEN <<>>
    ELSE Lookup(d, Head(seq)) \o JoinStr(d, Tail(seq))

\* pylcs.lcs_sequence_length: length of the longest common subsequence,
\* by the dynamic programme over the prefixes of a and b.
lcs_sequence_length(a, b) ==
    LET T[i \in 0..Len(a), j \in 0..Len(b)] ==
            IF i = 0 \/ j = 0 THEN 0
            ELSE IF a[i] = b[j] THEN T[i - 1, j - 1] + 1
            ELSE Max2(T[i - 1, j], T[i, j - 1])
    IN  T[Len(a), Len(b)]

\* The length of the longest common prefix.
lcs_prefix_length(a, b) ==
    LET P[i \in 0..Min2(Len(a), Len(b))] ==
            IF i = 0 THEN 0
            ELSE IF P[i - 1] = i - 1 /\ a[i] = b[i] THEN i ELSE P[i - 1]
    IN  P[Min2(Len(a), Len(b))]

\* The length of the shorter string.
lcs_min_length(a, b) == Min2(Len(a), Len(b))

\* pylcs.lcs_string_length: length of the longest common substring, the
\* largest common-suffix length over all pairs of prefixes.
lcs_string_length(a, b) ==
    LET S[i \in 0..Len(a), j \in 0..Len(b)] ==
            IF i = 0 \/ j = 0 THEN 0
            ELSE IF a[i] = b[j] THEN S[i - 1, j - 1] + 1
            ELSE 0
        best[n \in 0..(Len(a) * Len(b))] ==
            IF n = 0 THEN 0
            ELSE Max2(best[n - 1],
                      S[((n - 1) \div Len(b)) + 1, ((n - 1) % Len(b)) + 1])
    IN  best[Len(a) * Len(b)]

\* ------------------------------------------------------------- the metrics

\* A variant of StripUnknown that keeps the unknown entries.
StripUnknown_keep(seq, d) == seq

\* seq[seq < len(dictionary) - 1]
StripUnknown(seq, d) == SelectSeq(seq, LAMBDA x : x < Len(d) - 1)

\* A variant of Distance whose similarity is km / (len1 + len2).
Distance_single(km, len1, len2) ==
    IF len1 + len2 = 0
    THEN [exc |-> "ZeroDivisionError", val |-> Zero]
    ELSE [exc |-> "none", val |-> <<(len1 + len2) - km, len1 + len2>>]

\* (2 * km) / (len1 + len2), then 1 - similarity.
Distance(km, len1, len2) ==
    IF len1 + len2 = 0
    THEN [exc |-> "ZeroDivisionError", val |-> Zero]
    ELSE [exc |-> "none", val |-> <<(len1 + len2) - 2 * km, len1 + len2>>]

\* A variant of calc_dist that normalises by the first string alone.
calc_dist_first(seq1, seq2, d) ==
    LET seq1_str == JoinStr(d, SelectSeq(seq1, LAMBDA x : x < Len(d) - 1))
        seq2_str == JoinStr(d, SelectSeq(seq2, LAMBDA x : x < Len(d) - 1))
        km == lcs_sequence_length(seq1_str, seq2_str)
    IN  Distance(km, Len(seq1_str), Len(seq1_str))

calc_dist(seq1, seq2, d) ==
    LET seq1_str == JoinStr(d, StripUnknown(seq1, d))
        seq2_str == JoinStr(d, StripUnknown(seq2, d))
        km == lcs_sequence_length(seq1_str, seq2_str)
    IN  Distance(km, Len(seq1_str), Len(seq2_str))

calc_dist_substr(seq1, seq2, d) ==
    LET seq1_str == JoinStr(d, seq1)
        seq2_str == JoinStr(d, seq2)
        km == lcs_string_length(seq1_str, seq2_str)
    IN  Distance(km, Len(seq1_str), Len(seq2_str))

\* ------------------------------------------------------------------- files

\* A path is the sequence of its components ("succ_traj/distmat.npy" is
\* <<"succ_traj", "distmat", ".npy">>: the extension is a component of its own).
\* "." is the working directory, so it drops out of the file a path names.
Resolve(path) == SelectSeq(path, LAMBDA c : c # ".")

\* os.path.exists
exists(files, path) == \E f \in files : f.path = Resolve(path)

\* out_dir.rsplit("/", 1)[0]
rsplit_head(out_dir) ==
    IF Len(out_dir) >= 2 THEN SubSeq(out_dir, 1, Len(out_dir) - 1) ELSE out_dir

\* numpy.save(file, arr): ".npy" is appended to a name that does not end with it.
numpy_save(files, file, arr) ==
    LET name == IF file[Len(file)] = ".npy" THEN file ELSE file \o <<".npy">>
    IN  {f \in files : f.path # Resolve(name)}
            \cup {[path |-> Resolve(name), content |-> arr]}

\* numpy.load(file): the array stored under exactly that name.
numpy_load(files, file) ==
    IF \E f \in files : f.path = Resolve(file)
    THEN [exc |-> "none",
          val |-> (CHOOSE f \in files : f.path = Resolve(file)).content]
    ELSE [exc |-> "FileNotFoundError", val |-> <<>>]

\* ------------------------------------------------------ the distance matrix

\* pathway[:, 2]
StateColumn(pathway) == [j \in 1..Len(pathway) |-> pathway[j][3]]

\* The metric gen_dist_matrix hands to pairwise_distances.
Metric(metric, x, y, d) ==
    IF metric THEN calc_dist(x, y, d) ELSE calc_dist_substr(x, y, d)

\* The weights loop of gen_dist_matrix: for the subsequence metric the last
\* field of the last frame whose state is not unknown (IndexError when there
\* is none), for the substring metric the last field of the last frame.
PathwayWeight(pathway, d, metric) ==
    IF metric
    THEN LET nonzero == SelectSeq(pathway, LAMBDA step : step[3] < Len(d) - 1)
         IN  IF nonzero = <<>>
             THEN [exc |-> "IndexError", val |-> 0]
             ELSE [exc |-> "none",
                   val |-> nonzero[Len(nonzero)][Len(nonzero[Len(nonzero)])]]
    ELSE [exc |-> "none",
          val |-> pathway[Len(pathway)][Len(pathway[Len(pathway)])]]

PathwayWeights(pws, d, metric) ==
    IF \E i \in 1..Len(pws) : PathwayWeight(pws[i], d, metric).exc # "none"
    THEN [exc |-> "IndexError", val |-> <<>>]
    ELSE [exc |-> "none",
          val |-> [i \in 1..Len(pws) |-> PathwayWeight(pws[i], d, metric).val]]

\* sklearn.metrics.pairwise_distances(X, metric=callable, n_jobs=n_jobs).
\* With one job the callable is evaluated on the upper triangle, the result is
\* mirrored (out + out.T) and the diagonal is then evaluated as metric(x, x);
\* with several jobs every entry (i, j) is evaluated as metric(X[i], X[j]).
\* An exception of the callable propagates.
pairwise_distances(X, metric, d, n_jobs) ==
    LET n == Len(X)
        m(i, j) == Metric(metric, X[i], X[j], d)
        out == [i \in 1..n |-> [j \in 1..n |->
                   IF n_jobs = 1
                   THEN IF i < j THEN m(i, j) ELSE IF j < i THEN m(j, i) ELSE m(i, i)
                   ELSE m(i, j)]]
    IN  IF \E i, j \in 1..n : out[i][j].exc # "none"
        THEN [exc |-> "ZeroDivisionError", val |-> <<>>]
        ELSE [exc |-> "none",
              val |-> [i \in 1..n |-> [j \in 1..n |-> out[i][j].val]]]

\* gen_dist_matrix(pathways, dictionary, file_name, out_dir, remake, metric, n_jobs)
\* on the container and dictionary of the state; main assigns what it returns
\* to dist_matrix and weights.
gen_dist_matrix(file_name, out_dir, remake, metric, n_jobs) ==
    LET new_name == rsplit_head(out_dir) \o file_name
        w == PathwayWeights(pathways, dictionary, metric)
        path_strings == [i \in 1..Len(pathways) |-> StateColumn(pathways[i])]
        recompute == (~exists(fs, new_name)) \/ remake
        got == IF recompute
               THEN pairwise_distances(path_strings, metric, dictionary, n_jobs)
               ELSE numpy_load(fs, file_name)
        exc == IF w.exc # "none" THEN w.exc ELSE got.exc
    IN  /\ fs' = IF exc = "none" /\ recompute
                 THEN numpy_save(fs, file_name, got.val) ELSE fs
        /\ ret' = [op |-> "gen_dist_matrix", exc |-> exc,
                   file_name |-> file_name, out_dir |-> out_dir,
                   remake |-> remake, metric |-> metric, n_jobs |-> n_jobs,
                   computed |-> (w.exc = "none" /\ recompute),
                   distmat |-> IF exc = "none" THEN got.val ELSE <<>>,
                   weights |-> IF exc = "none" THEN w.val ELSE <<>>]
        /\ distmat' = IF exc = "none" THEN got.val ELSE distmat
        /\ weights' = IF exc = "none" THEN w.val ELSE weights
        /\ UNCHANGED <<pathways, dictionary, cluster_labels>>

\* ---------------------------------------------------------------- inputs

\* A real frame at position j of a pathway: iteration j, weight j.
RealFrame(j, s) == <<j, 0, s, j>>
\* A padding frame after expand_shorter_traj: numpy.zeros with the unknown state.
PadFrame(unknown) == <<0, 0, unknown, 0>>

\* The padded pathways of container length L over n_states real states: r real
\* frames followed by L - r padding frames.
PaddedPathways(L, n_states) ==
    UNION {{[j \in 1..L |-> IF j <= r THEN RealFrame(j, s[j]) ELSE PadFrame(n_states)]
                : s \in [1..r -> 0..(n_states - 1)]}
            : r \in 0..L}

\* The containers the metrics are applied to.  An entry (i, j) of the matrix
\* reads pathways i and j only, so containers of one and of two pathways
\* exercise every entry.
Containers(n_states) ==
    UNION {[1..N -> PaddedPathways(L, n_states)] : N \in 1..2, L \in 1..MaxLen}

NoCall == [op |-> "none", exc |-> "none"]

\* The signature defaults of gen_dist_matrix.
DefaultFileName == <<"distmat", ".npy">>
DefaultOutDir == <<"succ_traj">>

\* ----------------------------------------------- specification: the metrics

Init ==
    /\ \E n_states \in 1..MaxStates :
          /\ dictionary = identity_dictionary(n_states)
          /\ pathways \in Containers(n_states)
    /\ distmat = <<>>
    /\ weights = <<>>
    /\ cluster_labels = <<>>
    /\ fs = {}
    /\ ret = NoCall
    /\ hist = <<>>
    /\ proc = NoProc
    /\ stdin = <<>>

\* A direct call of calc_dist on the state columns of pathways i and j.
CallCalcDist(i, j) ==
    LET r == calc_dist(StateColumn(pathways[i]), StateColumn(pathways[j]), dictionary)
    IN  /\ ret.op = "none"
        /\ ret' = [op |-> "calc_dist", exc |-> r.exc, val |-> r.val, i |-> i, j |-> j]
        /\ UNCHANGED <<pathways, dictionary, distmat, weights, cluster_labels, fs, hist, proc, stdin>>

\* A direct call of calc_dist_substr on the state columns of pathways i and j.
CallCalcDistSubstr(i, j) ==
    LET r == calc_dist_substr(StateColumn(pathways[i]), StateColumn(pathways[j]),
                              dictionary)
    IN  /\ ret.op = "none"
        /\ ret' = [op |-> "calc_dist_substr", exc |-> r.exc, val |-> r.val,
                   i |-> i, j |-> j]
        /\ UNCHANGED <<pathways, dictionary, distmat, weights, cluster_labels, fs, hist, proc, stdin>>

\* A recomputing gen_dist_matrix call with the default file name and directory.
CallGenDistMatrix(metric, n_jobs) ==
    /\ ret.op = "none"
    /\ gen_dist_matrix(DefaultFileName, DefaultOutDir, TRUE, metric, n_jobs)
    /\ UNCHANGED <<hist, proc, stdin>>

Next ==
    \/ \E i, j \in 1..Len(pathways) : CallCalcDist(i, j)
    \/ \E i, j \in 1..Len(pathways) : CallCalcDistSubstr(i, j)
    \/ \E metric \in BOOLEAN, n_jobs \in {1, 2} : CallGenDistMatrix(metric, n_jobs)

Spec == Init /\ [][Next]_vars

\* ------------------------------------------------------ claims C1 .. C4

\* The comparison string a metric builds from pathway i.
ComparisonString(op, i) ==
    IF op = "calc_dist"
    THEN JoinStr(dictionary, StripUnknown(StateColumn(pathways[i]), dictionary))
    ELSE JoinStr(dictionary, StateColumn(pathways[i]))

\* The real (non-padding) frames of a pathway, and the symbols they carry.
RealFrames(pathway) == SelectSeq(pathway, LAMBDA step : step[1] # 0)
RealSymbols(pathway) ==
    {Lookup(dictionary, RealFrames(pathway)[j][3]) : j \in 1..Len(RealFrames(pathway))}
HasPadding(pathway) == \E j \in 1..Len(pathway) : pathway[j][1] = 0
HasKnownState(pathway) ==
    \E j \in 1..Len(pathway) : pathway[j][3] < Len(dictionary) - 1

\* C1: when every pathway has a non-unknown state, a recomputing
\* gen_dist_matrix call returns, for either metric, a matrix with one row and
\* one column per pathway that is symmetric and has a zero diagonal.
C1_SymmetricZeroDiagonal ==
    (/\ ret.op = "gen_dist_matrix"
     /\ ret.remake
     /\ \A i \in 1..Len(pathways) : HasKnownState(pathways[i]))
    => /\ ret.exc = "none"
       /\ Len(ret.distmat) = Len(pathways)
       /\ \A i, j \in 1..Len(pathways) :
             /\ Len(ret.distmat[i]) = Len(pathways)
             /\ RatEq(ret.distmat[i][j], ret.distmat[j][i])
             /\ RatEq(ret.distmat[i][i], Zero)

\* C1's case: a two-pathway matrix computed entry by entry (several jobs) whose
\* off-diagonal distance is strictly between 0 and 1.
C1_Witness ==
    /\ ret.op = "gen_dist_matrix"
    /\ ret.exc = "none"
    /\ ret.n_jobs = 2
    /\ Len(pathways) = 2
    /\ \A i \in 1..2 : HasKnownState(pathways[i])
    /\ Len(RealFrames(pathways[1])) # Len(RealFrames(pathways[2]))
    /\ RatLt(Zero, ret.distmat[1][2])
    /\ RatLt(ret.distmat[1][2], One)

\* C2: on two pathways whose comparison strings are not empty, calc_dist and
\* calc_dist_substr return a distance between 0 and 1, and 0 when the two state
\* sequences are identical.
C2_DistanceInUnitInterval ==
    (/\ ret.op \in {"calc_dist", "calc_dist_substr"}
     /\ ComparisonString(ret.op, ret.i) # <<>>
     /\ ComparisonString(ret.op, ret.j) # <<>>)
    => /\ ret.exc = "none"
       /\ RatLe(Zero, ret.val)
       /\ RatLe(ret.val, One)
       /\ (StateColumn(pathways[ret.i]) = StateColumn(pathways[ret.j])
             => RatEq(ret.val, Zero))

\* C2's case: calc_dist on two distinct pathways of the container that carry
\* the same state sequence, padding included, returns 0.
C2_Witness ==
    /\ ret.op = "calc_dist"
    /\ ret.i # ret.j
    /\ HasPadding(pathways[ret.i])
    /\ ComparisonString(ret.op, ret.i) # <<>>
    /\ StateColumn(pathways[ret.i]) = StateColumn(pathways[ret.j])
    /\ ret.exc = "none"
    /\ RatEq(ret.val, Zero)

\* Two pathways, each with a real frame, whose real frames share no symbol.
DisjointReal(i, j) ==
    /\ RealFrames(pathways[i]) # <<>>
    /\ RealFrames(pathways[j]) # <<>>
    /\ RealSymbols(pathways[i]) \cap RealSymbols(pathways[j]) = {}

\* C3 as stated: for both metrics, two pathways whose real frames share no
\* state symbol have distance exactly 1, also when both carry padding frames.
C3_Original ==
    (/\ ret.op \in {"calc_dist", "calc_dist_substr"}
     /\ DisjointReal(ret.i, ret.j))
    => (ret.exc = "none" /\ RatEq(ret.val, One))

\* C3 as amended: with real frames that share no symbol, calc_dist returns
\* exactly 1 whether or not the pathways carry padding; calc_dist_substr
\* returns exactly 1 when at most one of the two carries padding frames, and a
\* distance below 1 when both do (the unknown symbol of the padding is a
\* common substring).
C3_DisjointDistance ==
    (/\ ret.op \in {"calc_dist", "calc_dist_substr"}
     /\ DisjointReal(ret.i, ret.j))
    => /\ ret.exc = "none"
       /\ (ret.op = "calc_dist" => RatEq(ret.val, One))
       /\ (ret.op = "calc_dist_substr" =>
              IF HasPadding(pathways[ret.i]) /\ HasPadding(pathways[ret.j])
              THEN RatLt(ret.val, One)
              ELSE RatEq(ret.val, One))

\* C3's case: calc_dist on two padded pathways with disjoint real frames.
C3_Witness ==
    /\ ret.op = "calc_dist"
    /\ DisjointReal(ret.i, ret.j)
    /\ HasPadding(pathways[ret.i])
    /\ HasPadding(pathways[ret.j])
    /\ RatEq(ret.val, One)

\* C4: when both state sequences are entirely unknown, calc_dist returns the
\* defined distance 1 and raises no division error.
C4_DegenerateDistanceDefined ==
    (/\ ret.op = "calc_dist"
     /\ ComparisonString("calc_dist", ret.i) = <<>>
     /\ ComparisonString("calc_dist", ret.j) = <<>>)
    => (ret.exc = "none" /\ RatEq(ret.val, One))

\* --------------------------------------- specification: the matrix cache

\* The file names and output directories of the cache specification: the
\* defaults, a second file name, the working directory and a nested directory.
FileNames == {DefaultFileName, <<"dm", ".npy">>}
OutDirs == {DefaultOutDir, <<".">>, <<"succ_traj", "run">>}

\* Containers of two pathways of one real frame over the largest dictionary.
CacheContainers ==
    {c \in Containers(MaxStates) :
        Len(c) = 2 /\ Len(c[1]) = 1 /\ \A i \in 1..2 : c[i][1][1] # 0}

CacheInit ==
    /\ dictionary = identity_dictionary(MaxStates)
    /\ pathways \in CacheContainers
    /\ distmat = <<>>
    /\ weights = <<>>
    /\ cluster_labels = <<>>
    /\ fs = {}
    /\ ret = NoCall
    /\ hist = <<>>
    /\ proc = NoProc
    /\ stdin = <<>>

\* One gen_dist_matrix call of a run of calls on the same container.
CachedCall(file_name, out_dir, remake, metric) ==
    /\ Len(hist) < MaxCalls
    /\ gen_dist_matrix(file_name, out_dir, remake, metric, 1)
    /\ hist' = Append(hist, ret')
    /\ UNCHANGED <<proc, stdin>>

CacheNext ==
    \E file_name \in FileNames, out_dir \in OutDirs, remake \in BOOLEAN,
       metric \in BOOLEAN :
        CachedCall(file_name, out_dir, remake, metric)

SpecCache == CacheInit /\ [][CacheNext]_vars

\* C5: a returning call with remake=True followed by a call with remake=False
\* and the same file_name and out_dir: the second call computes no distance and
\* returns the matrix the first call saved.
C5_SecondCallLoadsSavedMatrix ==
    \A k \in 1..(Len(hist) - 1) :
        (/\ hist[k].remake
         /\ hist[k].exc = "none"
         /\ ~hist[k + 1].remake
         /\ hist[k + 1].file_name = hist[k].file_name
         /\ hist[k + 1].out_dir = hist[k].out_dir)
        => /\ hist[k + 1].exc = "none"
           /\ ~hist[k + 1].computed
           /\ hist[k + 1].distmat = hist[k].distmat

\* ------------------------------------------------- hierarchical clustering
\* hcluster is three library calls: scipy's squareform, linkage(method="ward")
\* and fcluster(criterion="maxclust").  They are modelled as scipy computes
\* them (the nearest-neighbour chain, the stable sort of the merges, the
\* relabelling, the cut), with one idealisation: a merge height is kept as its
\* exact square, so heights that are equal as real numbers compare equal.
\* Observations and clusters are numbered from 0, as in scipy.

RECURSIVE Gcd(_, _)
Gcd(a, b) == IF b = 0 THEN a ELSE Gcd(b, a % b)
Reduce(num, den, g) == IF g = 0 THEN <<num, den>> ELSE <<num \div g, den \div g>>
Norm(f) == Reduce(f[1], f[2], Gcd(IF f[1] < 0 THEN -f[1] ELSE f[1], f[2]))
FracSquare(a) == Norm(<<a[1] * a[1], a[2] * a[2]>>)
RatMax(a, b) == IF RatLe(a, b) THEN b ELSE a

\* squareform(distmat, checks=False): the upper triangle of the square matrix,
\* here as the function on the pairs <<i, j>>, i < j, with the distances squared.
squareform(X) ==
    [p \in {q \in (0..(Len(X) - 1)) \X (0..(Len(X) - 1)) : q[1] < q[2]} |->
        FracSquare(X[p[1] + 1][p[2] + 1])]

\* D[condensed_index(n, i, j)]
Cond(D, i, j) == IF i < j THEN D[<<i, j>>] ELSE D[<<j, i>>]

\* scipy's _ward: the Lance-Williams update, on squared distances:
\* ((size_i + size_x) d_xi + (size_i + size_y) d_yi - size_i d_xy)
\*     / (size_x + size_y + size_i).
ward(d_xi, d_yi, d_xy, size_x, size_y, size_i) ==
    Norm(<<(size_i + size_x) * d_xi[1] * d_yi[2] * d_xy[2]
              + (size_i + size_y) * d_yi[1] * d_xi[2] * d_xy[2]
              - size_i * d_xy[1] * d_xi[2] * d_yi[2],
           d_xi[2] * d_yi[2] * d_xy[2] * (size_x + size_y + size_i)>>)

\* The inner loop of nn_chain: the chain is extended by the nearest neighbour of
\* its last element x (the previous element of the chain on a tie with it, else
\* the lowest index at the least distance) until the last two elements are each
\* other's nearest neighbours; they are then removed from the chain and merged.
Lowest(S) == CHOOSE i \in S : \A k \in S : i <= k
Others(n, size, x) == {i \in 0..(n - 1) : size[i] > 0 /\ i # x}
Nearest(D, x, cand) ==
    {i \in cand : \A k \in cand : RatLe(Cond(D, x, i), Cond(D, x, k))}
Neighbour(chain, near) ==
    IF Len(chain) > 1 /\ chain[Len(chain) - 1] \in near
    THEN chain[Len(chain) - 1]
    ELSE Lowest(near)

RECURSIVE nn_grow(_, _, _, _)
nn_extend(n, D, size, chain, y) ==
    IF Len(chain) > 1 /\ y = chain[Len(chain) - 1]
    THEN [x |-> chain[Len(chain)], y |-> y, min |-> Cond(D, chain[Len(chain)], y),
          chain |-> SubSeq(chain, 1, Len(chain) - 2)]
    ELSE nn_grow(n, D, size, Append(chain, y))

nn_grow(n, D, size, chain) ==
    nn_extend(n, D, size, chain,
              Neighbour(chain, Nearest(D, chain[Len(chain)],
                                       Others(n, size, chain[Len(chain)]))))

\* The distances after clusters x and y (x < y) were merged at height min into
\* slot y: the distance of every other live cluster to y is updated.
nn_update(D, size, x, y, min) ==
    [p \in DOMAIN D |->
        IF p[1] = y /\ p[2] # x /\ size[p[2]] > 0
        THEN ward(Cond(D, p[2], x), D[p], min, size[x], size[y], size[p[2]])
        ELSE IF p[2] = y /\ p[1] # x /\ size[p[1]] > 0
        THEN ward(Cond(D, p[1], x), D[p], min, size[x], size[y], size[p[1]])
        ELSE D[p]]

\* The outer loop of nn_chain from merge k on: Z collects the rows
\* [a, b, h, cnt] in the order the merges are made.
RECURSIVE nn_chain_from(_, _, _, _, _, _)
nn_merge(n, k, D, size, x, y, g, Z) ==
    nn_chain_from(n, k + 1, nn_update(D, size, x, y, g.min),
                  [size EXCEPT ![x] = 0, ![y] = size[x] + size[y]], g.chain,
                  Append(Z, [a |-> x, b |-> y, h |-> g.min, cnt |-> size[x] + size[y]]))

nn_found(n, k, D, size, g, Z) ==
    nn_merge(n, k, D, size, Min2(g.x, g.y), Max2(g.x, g.y), g, Z)

nn_chain_from(n, k, D, size, chain, Z) ==
    IF k = n - 1 THEN Z
    ELSE nn_found(n, k, D, size,
                  nn_grow(n, D, size,
                          IF chain = <<>>
                          THEN <<Lowest({i \in 0..(n - 1) : size[i] > 0})>>
                          ELSE chain),
                  Z)

\* numpy.argsort(Z[:, 2], kind='mergesort'): the rows in ascending height, rows
\* of equal height in their original order.
RECURSIVE StableInsert(_, _)
StableInsert(sorted, row) ==
    IF sorted = <<>> THEN <<row>>
    ELSE IF RatLt(row.h, sorted[Len(sorted)].h)
    THEN Append(StableInsert(SubSeq(sorted, 1, Len(sorted) - 1), row),
                sorted[Len(sorted)])
    ELSE Append(sorted, row)

RECURSIVE SortByHeight(_)
SortByHeight(Z) ==
    IF Z = <<>> THEN <<>>
    ELSE StableInsert(SortByHeight(SubSeq(Z, 1, Len(Z) - 1)), Z[Len(Z)])

\* scipy's label: the union-find pass that replaces, row by row, the two
\* observations of a merge by the ids xr, yr of the clusters that hold them
\* (the smaller id first); the cluster made by row i gets the id n + i.
RECURSIVE label_from(_, _, _, _)
label_row(Z, n, i, root, xr, yr) ==
    label_from([Z EXCEPT ![i] = [a |-> Min2(xr, yr), b |-> Max2(xr, yr),
                                 h |-> Z[i].h, cnt |-> Z[i].cnt]],
               n, i + 1,
               [o \in DOMAIN root |->
                   IF root[o] = xr \/ root[o] = yr THEN n + (i - 1) ELSE root[o]])

label_from(Z, n, i, root) ==
    IF i > Len(Z) THEN Z
    ELSE label_row(Z, n, i, root, root[Z[i].a], root[Z[i].b])

\* sch.linkage(distmat_condensed, method="ward"); an empty condensed matrix has
\* no number of observations and raises ValueError.
linkage(D, n) ==
    IF n < 2 THEN [exc |-> "ValueError", val |-> <<>>]
    ELSE [exc |-> "none",
          val |-> label_from(
                      SortByHeight(nn_chain_from(n, 0, D, [i \in 0..(n - 1) |-> 1],
                                                 <<>>, <<>>)),
                      n, 1, [i \in 0..(n - 1) |-> i])]

\* get_max_dist_for_each_cluster: the largest height in the subtree of row r.
RECURSIVE MaxDist(_, _, _)
ChildDist(Z, n, child) == IF child >= n THEN MaxDist(Z, n, child - n) ELSE Zero
MaxDist(Z, n, r) ==
    RatMax(Z[r + 1].h, RatMax(ChildDist(Z, n, Z[r + 1].a), ChildDist(Z, n, Z[r + 1].b)))

\* The number of flat clusters a cutoff forms below a node: a subtree whose
\* largest height does not exceed the cutoff is one cluster, a leaf is one.
RECURSIVE CountClusters(_, _, _, _)
CountClusters(Z, n, node, cutoff) ==
    IF node < n THEN 1
    ELSE IF RatLe(MaxDist(Z, n, node - n), cutoff) THEN 1
    ELSE CountClusters(Z, n, Z[node - n + 1].a, cutoff)
            + CountClusters(Z, n, Z[node - n + 1].b, cutoff)

\* cluster_monocrit: the traversal from the root that numbers the clusters.  A
\* node that starts a cluster takes the next number; the children that are
\* nodes are visited first (left, then right), then the children that are
\* leaves are numbered (left, then right), a leaf outside every cluster taking
\* the next number.  st is [nc, T]: the count so far and the labels so far;
\* inside says that an enclosing node has started a cluster.
RECURSIVE Monocrit(_, _, _, _, _, _)
StartCluster(starts, st) ==
    IF starts THEN [nc |-> st.nc + 1, T |-> st.T] ELSE st
VisitChild(Z, n, child, cutoff, inside, st) ==
    IF child >= n THEN Monocrit(Z, n, child, cutoff, inside, st) ELSE st
NumberLeaf(child, c, st) ==
    [nc |-> c, T |-> [st.T EXCEPT ![child + 1] = c]]
LabelChild(n, child, inside, st) ==
    IF child < n
    THEN NumberLeaf(child, IF inside THEN st.nc ELSE st.nc + 1, st)
    ELSE st
VisitNode(Z, n, row, cutoff, starts, inside, st) ==
    LabelChild(n, row.b, inside \/ starts,
        LabelChild(n, row.a, inside \/ starts,
            VisitChild(Z, n, row.b, cutoff, inside \/ starts,
                VisitChild(Z, n, row.a, cutoff, inside \/ starts,
                    StartCluster(starts, st)))))
Monocrit(Z, n, node, cutoff, inside, st) ==
    VisitNode(Z, n, Z[node - n + 1], cutoff,
              (~inside) /\ RatLe(MaxDist(Z, n, node - n), cutoff), inside, st)

\* Every observation its own cluster, whatever n_clusters is.
fcluster_identity(Z, n, n_clusters) == [i \in 1..n |-> i]

\* The tree cut at its root: one cluster, whatever n_clusters is.
fcluster_root(Z, n, n_clusters) == [i \in 1..n |-> 1]

\* The merge heights at which the tree may be cut for n_clusters clusters.
LegalCuts(Z, n, n_clusters) ==
    {h \in {MaxDist(Z, n, r) : r \in 0..(n - 2)} :
        CountClusters(Z, n, 2 * n - 2, h) <= n_clusters}
LeastCut(legal) == CHOOSE h \in legal : \A g \in legal : RatLe(h, g)

\* sch.fcluster(z, t=n_clusters, criterion="maxclust"): with at least as many
\* clusters allowed as there are observations every observation is its own
\* cluster; otherwise the tree is cut at the least height that leaves no more
\* than n_clusters clusters.
fcluster(Z, n, n_clusters) ==
    IF n_clusters >= n THEN [i \in 1..n |-> i]
    ELSE Monocrit(Z, n, 2 * n - 2, LeastCut(LegalCuts(Z, n, n_clusters)), FALSE,
                  [nc |-> 0, T |-> [i \in 1..n |-> 0]]).T

\* The labels for a linkage result z, or its exception.
cut_tree(z, n, n_clusters) ==
    IF z.exc # "none" THEN [exc |-> z.exc, val |-> <<>>]
    ELSE [exc |-> "none", val |-> fcluster(z.val, n, n_clusters)]

\* hcluster(distmat, n_clusters), for n_clusters >= 1.
hcluster(X, n_clusters) ==
    cut_tree(linkage(squareform(X), Len(X)), Len(X), n_clusters)

\* ------------------------------------------------- the clustering run
\* main computes the distance matrix and then clusters it.  The pathways of a
\* clustering run are padded to a common length of two frames over two states
\* with at least one real frame (the strings 0!, 1!, 00, 01, 10, 11): their
\* distances take the values 0, 1/3, 1/2 and 1, so that equal distances, duplicates and distinct merge heights
\* all occur.  MaxObs bounds the number of pathways.
MaxObs == 3

ClusterContainers ==
    UNION {[1..N -> {p \in PaddedPathways(2, 2) : p[1][1] # 0}] : N \in 1..MaxObs}

ClusterInit ==
    /\ dictionary = identity_dictionary(2)
    /\ pathways \in ClusterContainers
    /\ distmat = <<>>
    /\ weights = <<>>
    /\ cluster_labels = <<>>
    /\ fs = {}
    /\ ret = NoCall
    /\ hist = <<>>
    /\ proc = NoProc
    /\ stdin = <<>>

ClusterGenDistMatrix(metric) ==
    /\ ret.op = "none"
    /\ gen_dist_matrix(DefaultFileName, DefaultOutDir, TRUE, metric, 1)
    /\ UNCHANGED <<hist, proc, stdin>>

\* cluster_labels = hcluster(distmat, ncluster)
CallHcluster(n_clusters) ==
    /\ ret.op = "gen_dist_matrix"
    /\ ret.exc = "none"
    /\ LET r == hcluster(distmat, n_clusters)
       IN  /\ ret' = [op |-> "hcluster", exc |-> r.exc,
                      n_clusters |-> n_clusters, val |-> r.val]
           /\ cluster_labels' = IF r.exc = "none" THEN r.val ELSE cluster_labels
    /\ UNCHANGED <<pathways, dictionary, distmat, weights, fs, hist, proc, stdin>>

ClusterNext ==
    \/ \E metric \in BOOLEAN : ClusterGenDistMatrix(metric)
    \/ \E n_clusters \in 1..(MaxObs + 1) : CallHcluster(n_clusters)

SpecCluster == ClusterInit /\ [][ClusterNext]_vars

LabelSet == {cluster_labels[i] : i \in 1..Len(cluster_labels)}

\* The merge heights of the linkage of the current matrix are pairwise distinct.
DistinctHeights ==
    LET z == linkage(squareform(distmat), Len(distmat))
    IN  /\ z.exc = "none"
        /\ \A i, j \in 1..Len(z.val) : i # j => ~RatEq(z.val[i].h, z.val[j].h)

LabelsWellFormed ==
    /\ ret.exc = "none"
    /\ Len(cluster_labels) = Len(pathways)
    /\ \A i \in 1..Len(cluster_labels) : cluster_labels[i] \in 1..ret.n_clusters
    /\ \E m \in 1..ret.n_clusters : LabelSet = 1..m

\* C6 as stated: for every distance matrix over N pathways and every k >= 1,
\* hcluster returns one label per pathway, each in 1..k, the labels in use
\* being 1..m with no gap.
C6_Original ==
    ret.op = "hcluster" => LabelsWellFormed

\* C6, amended: for N >= 2 pathways and every k >= 1, hcluster returns one
\* label per pathway, each in 1..k, the labels in use being 1..m with no gap;
\* for a single pathway hcluster raises ValueError and returns no labels.
C6_LabelsContiguous ==
    ret.op = "hcluster" =>
        IF Len(pathways) >= 2 THEN LabelsWellFormed
        ELSE ret.exc = "ValueError" /\ cluster_labels = <<>>

\* C6's case: three pathways cut for two clusters, in two clusters when the
\* merge heights differ and in one (m < k) when they coincide.
C6_Witness ==
    /\ ret.op = "hcluster"
    /\ Len(pathways) = 3
    /\ ret.n_clusters = 2
    /\ LabelsWellFormed
    /\ LabelSet = IF DistinctHeights THEN {1, 2} ELSE {1}
    /\ cluster_labels[1] = 2

\* C7 as stated: for every k with 1 <= k <= N, hcluster returns labels with
\* exactly k distinct values, also when pairwise distances are equal or zero.
C7_Original ==
    (ret.op = "hcluster" /\ ret.n_clusters <= Len(pathways)) =>
        ret.exc = "none" /\ Cardinality(LabelSet) = ret.n_clusters

\* C7, amended: for N >= 2 and 1 <= k <= N, hcluster returns labels with at
\* most k distinct values, and exactly k when the merge heights of the linkage
\* are pairwise distinct.
C7_AtMostK ==
    (ret.op = "hcluster" /\ Len(pathways) >= 2 /\ ret.n_clusters <= Len(pathways)) =>
        /\ ret.exc = "none"
        /\ Cardinality(LabelSet) <= ret.n_clusters
        /\ DistinctHeights => Cardinality(LabelSet) = ret.n_clusters

\* C7's case: three pathways with distinct merge heights cut into exactly two
\* clusters.
C7_Witness ==
    /\ ret.op = "hcluster"
    /\ Len(pathways) = 3
    /\ ret.n_clusters = 2
    /\ DistinctHeights
    /\ Cardinality(LabelSet) = 2

\* ------------------------------------------------- representatives, export
\* A Python value that a caller formats or compares is kept with its type:
\* [type, val].  The items of a clusters list are ints when a caller builds
\* the list and strs when the command line does (--clusters has nargs='*' and
\* no type).
IntObj(n) == [type |-> "int", val |-> n]
StrObj(chars) == [type |-> "str", val |-> chars]

\* str(obj)
str(obj) == IF obj.type = "int" THEN PyStr(obj.val) ELSE obj.val

\* The indices i (ascending) with cluster_labels[i] = icluster: the True
\* entries of the mask cluster_labels == icluster.  The labels are ints, and
\* no int equals a str.
RECURSIVE SelectedIndices(_, _, _)
SelectedIndices(labels, icluster, i) ==
    IF i > Len(labels) THEN <<>>
    ELSE IF icluster.type = "int" /\ labels[i] = icluster.val
    THEN <<i>> \o SelectedIndices(labels, icluster, i + 1)
    ELSE SelectedIndices(labels, icluster, i + 1)

\* numpy.argmax: the first index of the largest entry.
argmax(seq) ==
    CHOOSE i \in 1..Len(seq) :
        /\ \A j \in 1..Len(seq) : seq[j] <= seq[i]
        /\ \A j \in 1..(i - 1) : seq[j] < seq[i]

\* data_cl[numpy.argmax(weights_cl)][0]: the first frame of the member of
\* largest weight.
RepWeight(data_cl, weights_cl) ==
    [type |-> "ndarray", val |-> data_cl[argmax(weights_cl)][1]]

\* select_rep(data_arr, weights, cluster_labels, icluster); numpy.argmax of an
\* empty selection raises ValueError.
select_rep(data_arr, w, labels, icluster) ==
    LET sel == SelectedIndices(labels, icluster, 1)
        data_cl == [k \in 1..Len(sel) |-> data_arr[sel[k]]]
        weights_cl == [k \in 1..Len(sel) |-> w[sel[k]]]
    IN  IF sel = <<>>
        THEN [exc |-> "ValueError", data_cl |-> <<>>,
              rep_weight |-> [type |-> "NoneType", val |-> 0]]
        ELSE [exc |-> "none", data_cl |-> data_cl,
              rep_weight |-> RepWeight(data_cl, weights_cl)]

\* The clusters argument: None, a list of cluster numbers, or the list of
\* words that followed --clusters on the command line.
NoneClusters == [given |-> FALSE, val |-> <<>>]
ListClusters(list) == [given |-> TRUE, val |-> [i \in 1..Len(list) |-> IntObj(list[i])]]
ParsedClusters(words) ==
    [given |-> TRUE, val |-> [i \in 1..Len(words) |-> StrObj(words[i])]]

MaxLabel(labels) ==
    CHOOSE m \in {labels[i] : i \in 1..Len(labels)} :
        \A i \in 1..Len(labels) : labels[i] <= m

\* determine_clusters(cluster_labels, clusters):
\* list(range(0, max(cluster_labels) + 1)) for None, the list itself otherwise.
determine_clusters(labels, clusters) ==
    IF ~clusters.given
    THEN [i \in 1..(MaxLabel(labels) + 1) |-> IntObj(i - 1)]
    ELSE clusters.val

\* The loop of export_std_files over the clusters from position i on: the
\* report lines collected so far, or the exception of select_rep.
RECURSIVE representative_list(_, _, _, _, _, _)
representative_list(data_arr, w, labels, clusters, i, lines) ==
    IF i > Len(clusters) THEN [exc |-> "none", val |-> lines]
    ELSE
        LET r == select_rep(data_arr, w, labels, clusters[i])
        IN  IF r.exc # "none" THEN [exc |-> r.exc, val |-> lines]
            ELSE representative_list(data_arr, w, labels, clusters, i + 1,
                                     Append(lines, [str |-> r.rep_weight, end |-> "\n"]))

RepresentativeFile(out_dir) == rsplit_head(out_dir) \o <<"representative_segments.txt">>

\* export_std_files(pathways, weights, cluster_labels, clusters, out_dir): the
\* report is written after the loop, so an exception in the loop writes nothing.
export_std_files(clusters, out_dir) ==
    LET requested == determine_clusters(cluster_labels, clusters)
        r == representative_list(pathways, weights, cluster_labels, requested, 1, <<>>)
        file == Resolve(RepresentativeFile(out_dir))
    IN  /\ fs' = IF r.exc = "none"
                 THEN {f \in fs : f.path # file} \cup {[path |-> file, content |-> r.val]}
                 ELSE fs
        /\ ret' = [op |-> "export_std_files", exc |-> r.exc, clusters |-> clusters,
                   out_dir |-> out_dir, requested |-> requested]
        /\ UNCHANGED <<pathways, dictionary, distmat, weights, cluster_labels, hist, proc, stdin>>

\* The state after clustering: pathways of two real frames whose last frame
\* carries a weight in 1..MaxWeight, the weights gen_dist_matrix returns for
\* them, and cluster labels 1..m, every label in use.
MaxWeight == 2

ExportPathway(weight) == <<<<1, 0, 0, 1>>, <<2, 0, 1, weight>>>>

ExportContainers ==
    UNION {[1..N -> {ExportPathway(weight) : weight \in 1..MaxWeight}] : N \in 1..MaxObs}

Labellings(N) ==
    {l \in [1..N -> 1..N] : \E m \in 1..N : {l[i] : i \in 1..N} = 1..m}

ExportInit ==
    /\ dictionary = identity_dictionary(2)
    /\ pathways \in ExportContainers
    /\ distmat = pairwise_distances([i \in 1..Len(pathways) |-> StateColumn(pathways[i])],
                                    TRUE, dictionary, 1).val
    /\ weights = PathwayWeights(pathways, dictionary, TRUE).val
    /\ cluster_labels \in Labellings(Len(pathways))
    /\ fs = {}
    /\ ret = NoCall
    /\ hist = <<>>
    /\ proc = NoProc
    /\ stdin = <<>>

CallSelectRep(icluster) ==
    /\ ret.op = "none"
    /\ LET r == select_rep(pathways, weights, cluster_labels, IntObj(icluster))
       IN  ret' = [op |-> "select_rep", exc |-> r.exc, icluster |-> icluster,
                   data_cl |-> r.data_cl, rep_weight |-> r.rep_weight]
    /\ UNCHANGED <<pathways, dictionary, distmat, weights, cluster_labels, fs, hist, proc, stdin>>

CallExportStdFiles(clusters) ==
    /\ ret.op = "none"
    /\ export_std_files(clusters, DefaultOutDir)

ExportNext ==
    \/ \E icluster \in 0..MaxObs : CallSelectRep(icluster)
    \/ CallExportStdFiles(NoneClusters)
    \/ CallExportStdFiles(ListClusters([i \in 1..MaxLabel(cluster_labels) |-> i]))

SpecExport == ExportInit /\ [][ExportNext]_vars

Members(icluster) == SelectedIndices(cluster_labels, IntObj(icluster), 1)

\* C8: for a non-empty cluster c, select_rep returns the pathways labelled c
\* and, as the representative weight, the largest weight among them.
C8_RepresentativeWeightIsMax ==
    (ret.op = "select_rep" /\ Members(ret.icluster) # <<>>) =>
        /\ ret.exc = "none"
        /\ ret.data_cl = [k \in 1..Len(Members(ret.icluster)) |->
                             pathways[Members(ret.icluster)[k]]]
        /\ ret.rep_weight.type = "float"
        /\ \A k \in 1..Len(Members(ret.icluster)) :
              weights[Members(ret.icluster)[k]] <= ret.rep_weight.val
        /\ \E k \in 1..Len(Members(ret.icluster)) :
              weights[Members(ret.icluster)[k]] = ret.rep_weight.val

\* C9: with clusters=None the export treats the labels 1..K in use as the
\* requested clusters, completes without error and writes K report entries,
\* one per cluster in ascending order.
C9_DefaultExportsEveryCluster ==
    (ret.op = "export_std_files" /\ ~ret.clusters.given) =>
        /\ ret.requested = [i \in 1..MaxLabel(cluster_labels) |-> IntObj(i)]
        /\ ret.exc = "none"
        /\ \E f \in fs :
              /\ f.path = Resolve(RepresentativeFile(ret.out_dir))
              /\ Len(f.content) = MaxLabel(cluster_labels)

\* ------------------------------------------------------------- padding
\* expand_shorter_traj on one frame: a frame without an iteration number gets
\* the last entry of the dictionary as its state.
PadStep_add(step, d) ==
    IF step[1] = 0 THEN [step EXCEPT ![3] = step[3] + Len(d) - 1] ELSE step

PadStep(step, d) ==
    IF step[1] = 0 THEN [step EXCEPT ![3] = Len(d) - 1] ELSE step

\* A clean-up that leaves the pathways as they are.
expand_shorter_traj_skip(pws, d) == pws

\* expand_shorter_traj(pathways, dictionary): every frame of every pathway.
expand_shorter_traj(pws, d) ==
    [i \in 1..Len(pws) |-> [j \in 1..Len(pws[i]) |-> PadStep(pws[i][j], d)]]

\* A row of numpy.zeros, as load_data leaves the frames no reassignment fills.
ZeroFrame == <<0, 0, 0, 0>>

\* The pathways reassignment leaves behind: r real frames, then zero frames.
RawPathways(L, n_states) ==
    UNION {{[j \in 1..L |-> IF j <= r THEN RealFrame(j, s[j]) ELSE ZeroFrame]
                : s \in [1..r -> 0..(n_states - 1)]}
            : r \in 0..L}

\* Containers before the padding step, already padded, or mixed.
PadContainers(n_states) ==
    UNION {[1..N -> RawPathways(L, n_states) \cup PaddedPathways(L, n_states)]
            : N \in 1..2, L \in 1..MaxLen}

PadInit ==
    /\ \E n_states \in 1..MaxStates :
          /\ dictionary = identity_dictionary(n_states)
          /\ pathways \in PadContainers(n_states)
    /\ distmat = <<>>
    /\ weights = <<>>
    /\ cluster_labels = <<>>
    /\ fs = {}
    /\ ret = NoCall
    /\ hist = <<>>
    /\ proc = NoProc
    /\ stdin = <<>>

\* expand_shorter_traj(pathways, dictionary), in place; hist keeps the
\* container before and after each application.
CallExpandShorterTraj ==
    /\ Len(hist) < MaxCalls
    /\ pathways' = expand_shorter_traj(pathways, dictionary)
    /\ hist' = Append(hist, [before |-> pathways, after |-> pathways'])
    /\ UNCHANGED <<proc, stdin>>
    /\ ret' = [op |-> "expand_shorter_traj", exc |-> "none"]
    /\ UNCHANGED <<dictionary, distmat, weights, cluster_labels, fs>>

PadNext == CallExpandShorterTraj

SpecPad == PadInit /\ [][PadNext]_vars

\* C10: expand_shorter_traj is idempotent: every further application leaves
\* the pathways exactly as the first application left them.
C10_PaddingIdempotent ==
    \A i \in 1..Len(hist) :
        /\ hist[i].after = hist[1].after
        /\ i >= 2 => hist[i].before = hist[i].after

\* C10's case: the first application changed a frame and a second one has run.
C10_Witness ==
    /\ Len(hist) >= 2
    /\ hist[1].before # hist[1].after
    /\ pathways = hist[2].after

\* ------------------------------------------------- weighted-ensemble export
\* An ensemble archive (west.h5) is [summary, data]: the length of its summary
\* table and its datasets by key.  A key is [group, prefix, n_iter, name];
\* n_iter stands for the zero-padded number f'{n_iter:>08}'.  A seg_index
\* dataset is the sequence of the weights of its segments (segment n_seg at
\* position n_seg + 1).

\* The dataset export_we_files takes the number of segments from:
\* f'iteration/{n_iter:>08}/seg_index'.
SegIndexRead(n_iter) ==
    [group |-> "iteration", prefix |-> "", n_iter |-> n_iter, name |-> "seg_index"]

\* The dataset export_we_files writes the weights to, which is where an archive
\* keeps them: f'iterations/iter_{n_iter:>08}/seg_index'.
SegIndexWrite(n_iter) ==
    [group |-> "iterations", prefix |-> "iter_", n_iter |-> n_iter, name |-> "seg_index"]

\* {tuple(pair) for ilist in trace_out_list for pair in ilist}: the
\* (iteration, segment) pairs of the frames of the members.
exclusive_set(data_cl) ==
    {<<data_cl[i][j][1], data_cl[i][j][2]>> :
        i \in 1..Len(data_cl), j \in 1..Len(data_cl[1])}

\* The segments of iteration n_iter that are no member pair.
Outsiders(archive, pairs, n_iter) ==
    {n_seg \in 0..(Len(archive.data[SegIndexRead(n_iter)]) - 1) :
        <<n_iter, n_seg>> \notin pairs}

\* h5file[SegIndexWrite(n_iter)]["weight", n_seg] = 0 for the given segments.
ZeroWeights(archive, n_iter, segs) ==
    [archive EXCEPT !.data[SegIndexWrite(n_iter)] =
        [k \in DOMAIN @ |-> IF (k - 1) \in segs THEN 0 ELSE @[k]]]

\* The loop over the iterations of a copy, from n_iter down to 1; a dataset
\* that the copy does not hold raises KeyError, and what was written before
\* stays written.
RECURSIVE zero_from(_, _, _)
zero_iter(archive, pairs, n_iter, segs) ==
    IF segs = {} THEN zero_from(archive, pairs, n_iter - 1)
    ELSE IF SegIndexWrite(n_iter) \notin DOMAIN archive.data
    THEN [exc |-> "KeyError", val |-> archive]
    ELSE zero_from(ZeroWeights(archive, n_iter, segs), pairs, n_iter - 1)

zero_from(archive, pairs, n_iter) ==
    IF n_iter < 1 THEN [exc |-> "none", val |-> archive]
    ELSE IF SegIndexRead(n_iter) \notin DOMAIN archive.data
    THEN [exc |-> "KeyError", val |-> archive]
    ELSE zero_iter(archive, pairs, n_iter, Outsiders(archive, pairs, n_iter))

FileContent(files, path) == (CHOOSE f \in files : f.path = Resolve(path)).content
WriteFile(files, path, content) ==
    {f \in files : f.path # Resolve(path)}
        \cup {[path |-> Resolve(path), content |-> content]}

\* f'{out_dir}/' + file_pattern.format(str(icluster)), for the default pattern
\* "west_succ_c{}.h5".
ClusterFile(out_dir, icluster) ==
    rsplit_head(out_dir) \o <<"west_succ_c">> \o str(icluster) \o <<".h5">>

\* if not exists(new_file): copyfile(west_name, new_file)
copy_if_missing(files, west_name, new_file) ==
    IF exists(files, new_file) THEN files
    ELSE WriteFile(files, new_file, FileContent(files, west_name))

\* The body of the loop of export_we_files for one cluster, on the files with
\* the copy in place: the outcome of select_rep r decides whether the copy is
\* edited.  The result is [exc, files, line].
edit_copy(files, new_file, last_iter, r) ==
    IF r.exc # "none" THEN [exc |-> r.exc, files |-> files, line |-> <<>>]
    ELSE [exc |-> zero_from(FileContent(files, new_file),
                            exclusive_set(r.data_cl), last_iter).exc,
          files |-> WriteFile(files, new_file,
                              zero_from(FileContent(files, new_file),
                                        exclusive_set(r.data_cl), last_iter).val),
          line |-> [str |-> r.rep_weight, end |-> "\n"]]

export_cluster(files, west_name, out_dir, icluster) ==
    IF ~exists(files, west_name)
    THEN [exc |-> "FileNotFoundError", files |-> files, line |-> <<>>]
    ELSE edit_copy(copy_if_missing(files, west_name, ClusterFile(out_dir, icluster)),
                   ClusterFile(out_dir, icluster),
                   FileContent(files, west_name).summary,
                   select_rep(pathways, weights, cluster_labels, icluster))

\* The loop of export_we_files over the clusters from position i on.
RECURSIVE we_loop(_, _, _, _, _, _)
we_next(files, west_name, out_dir, clusters, i, lines, r) ==
    IF r.exc # "none" THEN [exc |-> r.exc, files |-> r.files, lines |-> lines]
    ELSE we_loop(r.files, west_name, out_dir, clusters, i + 1, Append(lines, r.line))

we_loop(files, west_name, out_dir, clusters, i, lines) ==
    IF i > Len(clusters) THEN [exc |-> "none", files |-> files, lines |-> lines]
    ELSE we_next(files, west_name, out_dir, clusters, i, lines,
                 export_cluster(files, west_name, out_dir, clusters[i]))

we_finish(r, clusters, requested, out_dir) ==
    /\ fs' = IF r.exc = "none"
             THEN WriteFile(r.files, RepresentativeFile(out_dir), r.lines)
             ELSE r.files
    /\ ret' = [op |-> "export_we_files", exc |-> r.exc, clusters |-> clusters,
               out_dir |-> out_dir, requested |-> requested, before |-> fs]
    /\ UNCHANGED <<pathways, dictionary, distmat, weights, cluster_labels>>

\* export_we_files(pathways, weights, cluster_labels, clusters, file_pattern,
\* out_dir, west_name) with h5py installed; the report is written after the loop.
export_we_files(clusters, out_dir, west_name) ==
    we_finish(we_loop(fs, west_name, out_dir,
                      determine_clusters(cluster_labels, clusters), 1, <<>>),
              clusters, determine_clusters(cluster_labels, clusters), out_dir)

\* The archive of a simulation of n_iters iterations with two segments each;
\* segment n_seg of iteration n_iter has the weight n_iter + n_seg.
MaxIter == 2
DefaultWestName == <<"west", ".h5">>

WestArchive(n_iters) ==
    [summary |-> n_iters,
     data |-> [key \in {SegIndexWrite(n) : n \in 1..n_iters} |->
                  <<key.n_iter, key.n_iter + 1>>]]

\* A pathway of one frame: a segment of the archive with its weight.
WEPathway(n_iter, n_seg) == <<<<n_iter, n_seg, 0, n_iter + n_seg>>>>

WEContainers(n_iters) ==
    UNION {[1..N -> {WEPathway(n, g) : n \in 1..n_iters, g \in 0..1}] : N \in 1..2}

WEInit ==
    /\ dictionary = identity_dictionary(2)
    /\ \E n_iters \in 1..MaxIter :
          /\ pathways \in WEContainers(n_iters)
          /\ fs = {[path |-> DefaultWestName, content |-> WestArchive(n_iters)]}
    /\ distmat = pairwise_distances([i \in 1..Len(pathways) |-> StateColumn(pathways[i])],
                                    TRUE, dictionary, 1).val
    /\ weights = PathwayWeights(pathways, dictionary, TRUE).val
    /\ cluster_labels \in Labellings(Len(pathways))
    /\ ret = NoCall
    /\ hist = <<>>
    /\ proc = NoProc
    /\ stdin = <<>>

CallExportWeFiles(clusters) ==
    /\ ret.op = "none"
    /\ export_we_files(clusters, DefaultOutDir, DefaultWestName)
    /\ UNCHANGED <<hist, proc, stdin>>

WENext ==
    \/ CallExportWeFiles(NoneClusters)
    \/ \E c \in 1..2 : CallExportWeFiles(ListClusters(<<c>>))
    \/ CallExportWeFiles(ListClusters([i \in 1..MaxLabel(cluster_labels) |-> i]))

SpecWE == WEInit /\ [][WENext]_vars

\* The (iteration, segment) pairs of the members of a cluster.
MemberPairs(icluster) ==
    {<<pathways[i][j][1], pathways[i][j][2]>> :
        i \in {k \in 1..Len(pathways) : cluster_labels[k] = icluster},
        j \in 1..Len(pathways[1])}

\* The copy for a cluster holds, for every segment of the source archive, the
\* source weight if the segment is a member pair and 0 otherwise.
CopyFiltered(source, copy, icluster) ==
    /\ DOMAIN copy.data = DOMAIN source.data
    /\ \A key \in DOMAIN source.data :
          /\ Len(copy.data[key]) = Len(source.data[key])
          /\ \A k \in 1..Len(source.data[key]) :
                copy.data[key][k] =
                    IF <<key.n_iter, k - 1>> \in MemberPairs(icluster)
                    THEN source.data[key][k] ELSE 0

\* C11: when no per-cluster file exists beforehand, export_we_files for a
\* non-empty cluster c finishes with a copy for c in which every segment that
\* is no member pair of c has weight 0 and every member pair keeps its source
\* weight, and the source archive is unchanged.
C11_CopyKeepsOnlyMembers ==
    (/\ ret.op = "export_we_files"
     /\ ret.clusters.given
     /\ \A i \in 1..Len(ret.requested) : MemberPairs(ret.requested[i].val) # {})
    => /\ ret.exc = "none"
       /\ exists(fs, DefaultWestName)
       /\ FileContent(fs, DefaultWestName) = FileContent(ret.before, DefaultWestName)
       /\ \A i \in 1..Len(ret.requested) :
             /\ exists(fs, ClusterFile(ret.out_dir, ret.requested[i]))
             /\ CopyFiltered(FileContent(fs, DefaultWestName),
                             FileContent(fs, ClusterFile(ret.out_dir, ret.requested[i])),
                             ret.requested[i].val)

\* ------------------------------------------------- worked examples
\* chr(idx + 65) for idx < 26.
Letters == <<"A", "B", "C", "D", "E", "F", "G", "H", "I", "J", "K", "L", "M",
             "N", "O", "P", "Q", "R", "S", "T", "U", "V", "W", "X", "Y", "Z">>
PyChr65(idx) == Letters[idx + 1]

\* The dictionary reassign_segid builds for n_states states.
segid_dictionary(n_states) ==
    [k \in 1..(n_states + 1) |->
        IF k <= n_states THEN <<PyChr65(k - 1)>> ELSE <<"!">>]

\* The pathway of real frames with the given state ids, every weight 1.
ExamplePathway(states) == [j \in 1..Len(states) |-> <<j, 0, states[j], 1>>]

ABAB == ExamplePathway(<<0, 1, 0, 1>>)
CDCD == ExamplePathway(<<2, 3, 2, 3>>)
AAAB == ExamplePathway(<<0, 0, 0, 1>>)
BAAA == ExamplePathway(<<1, 0, 0, 0>>)

\* Containers of one to three of the example pathways.
ExampleContainers ==
    UNION {[1..N -> {ABAB, CDCD, AAAB, BAAA}] : N \in 1..3}

ExampleInit ==
    /\ dictionary = segid_dictionary(4)
    /\ pathways \in ExampleContainers
    /\ distmat = <<>>
    /\ weights = <<>>
    /\ cluster_labels = <<>>
    /\ fs = {}
    /\ ret = NoCall
    /\ hist = <<>>
    /\ proc = NoProc
    /\ stdin = <<>>

ExampleNext ==
    \/ \E i, j \in 1..Len(pathways) : CallCalcDist(i, j)
    \/ \E i, j \in 1..Len(pathways) : CallCalcDistSubstr(i, j)
    \/ \E metric \in BOOLEAN : ClusterGenDistMatrix(metric)
    \/ \E n_clusters \in 1..(MaxObs + 1) : CallHcluster(n_clusters)

SpecExample == ExampleInit /\ [][ExampleNext]_vars

\* C12: for the pathways ABAB, ABAB, CDCD the subsequence distances are
\* d(0,1) = 0, d(0,2) = 1, d(1,2) = 1, and hcluster with k = 2 gives pathways 0
\* and 1 one label and pathway 2 another.
C12_TwoAlikeOneApart ==
    (/\ pathways = <<ABAB, ABAB, CDCD>>
     /\ ret.op = "hcluster"
     /\ ret.n_clusters = 2
     /\ distmat = pairwise_distances([i \in 1..3 |-> StateColumn(pathways[i])],
                                     TRUE, dictionary, 1).val)
    => /\ RatEq(distmat[1][2], Zero)
       /\ RatEq(distmat[1][3], One)
       /\ RatEq(distmat[2][3], One)
       /\ ret.exc = "none"
       /\ cluster_labels[1] = cluster_labels[2]
       /\ cluster_labels[3] # cluster_labels[1]

\* C12's case: the three pathways clustered into two clusters after the
\* subsequence metric.
C12_Witness ==
    /\ pathways = <<ABAB, ABAB, CDCD>>
    /\ ret.op = "hcluster"
    /\ ret.n_clusters = 2
    /\ RatEq(distmat[1][3], One)
    /\ cluster_labels = <<1, 1, 2>>

\* The distances the two metrics give for pathways i and j.
BothMetrics(i, j) ==
    [seq |-> calc_dist(StateColumn(pathways[i]), StateColumn(pathways[j]), dictionary).val,
     str |-> calc_dist_substr(StateColumn(pathways[i]), StateColumn(pathways[j]),
                              dictionary).val]

\* C13 as stated: on AAAB and BAAA the substring metric and the subsequence
\* metric return different distances.
C13_Original ==
    (/\ ret.op = "calc_dist_substr"
     /\ pathways[ret.i] = AAAB
     /\ pathways[ret.j] = BAAA)
    => ~RatEq(ret.val, BothMetrics(ret.i, ret.j).seq)

\* C13, amended: on AAAB and BAAA both metrics return the distance 1/4 (AAA is
\* the longest common subsequence and the longest common substring); on ABAB
\* and AAAB they differ: 1/4 for the subsequence metric, 1/2 for the substring
\* metric.
C13_MetricsAgreeOnAAAB ==
    /\ (/\ ret.op = "calc_dist_substr"
        /\ pathways[ret.i] = AAAB
        /\ pathways[ret.j] = BAAA)
       => /\ RatEq(ret.val, <<1, 4>>)
          /\ RatEq(BothMetrics(ret.i, ret.j).seq, <<1, 4>>)
    /\ (/\ ret.op = "calc_dist_substr"
        /\ pathways[ret.i] = ABAB
        /\ pathways[ret.j] = AAAB)
       => /\ RatEq(ret.val, <<1, 2>>)
          /\ RatEq(BothMetrics(ret.i, ret.j).seq, <<1, 4>>)

\* C13's case: the substring metric called on AAAB and BAAA.
C13_Witness ==
    /\ ret.op = "calc_dist_substr"
    /\ pathways[ret.i] = AAAB
    /\ pathways[ret.j] = BAAA
    /\ ret.exc = "none"

\* ------------------------------------------------- the weights
\* C14: for both metrics the weight gen_dist_matrix returns for a pathway is
\* the weight field of its last frame with iteration_id # 0, also when the
\* pathway ends in padding frames.
C14_TerminalRealWeight ==
    (/\ ret.op = "gen_dist_matrix"
     /\ \A i \in 1..Len(pathways) : RealFrames(pathways[i]) # <<>>)
    => /\ ret.exc = "none"
       /\ Len(ret.weights) = Len(pathways)
       /\ \A i \in 1..Len(pathways) :
             ret.weights[i] = RealFrames(pathways[i])[Len(RealFrames(pathways[i]))][4]

\* ------------------------------------------- the questions to the user
\* The terminal is the queue stdin of what the user has done and the program
\* has not read yet: a typed line (a string, without its newline) or an
\* interrupt (Ctrl-C).  input() takes the head of the queue: it returns a
\* line, raises KeyboardInterrupt at an interrupt, and raises EOFError when
\* the user has closed the terminal (the queue is empty).
Line(text) == [key |-> "line", text |-> text]
Interrupt == [key |-> "interrupt", text |-> <<>>]

\* Longest number of things the user does at the terminal in one behaviour.
MaxAnswers == 3

\* The lines of the modelled users: "", "2", "3", " 2 ", "-2", "2.0", "a", "2a",
\* and the other ways to write an integer: "1_0", "2" after a tab, "+3", "2"
\* between vertical tabs; "1__0" is none.
Lines ==
    {<<>>, <<"2">>, <<"3">>, <<" ", "2", " ">>, <<"-", "2">>, <<"2", ".", "0">>,
     <<"a">>, <<"2", "a">>, <<"1", "_", "0">>, <<"\t", "2">>, <<"+", "3">>,
     <<"1", "_", "_", "0">>, <<"", "2", "">>}

Terminals ==
    UNION {[1..n -> {Line(t) : t \in Lines} \cup {Interrupt}] : n \in 0..MaxAnswers}

\* The characters of the model are ASCII.  int and float take away the
\* whitespace at both ends: the space and the characters 9 to 13, of which
\* the vertical tab (11) has no escape and stands in its string as it is.
\* (The whitespace and the decimal digits of the rest of Unicode, which Python
\* treats alike, are not in the alphabet.)
VerticalTab == ""
Whitespace == {" ", "\t", "\n", VerticalTab, "\f", "\r"}
RECURSIVE LStrip(_)
LStrip(text) ==
    IF text # <<>> /\ text[1] \in Whitespace THEN LStrip(Tail(text)) ELSE text
RECURSIVE RStrip(_)
RStrip(text) ==
    IF text # <<>> /\ text[Len(text)] \in Whitespace
    THEN RStrip(SubSeq(text, 1, Len(text) - 1)) ELSE text
Unsigned(text) ==
    IF text # <<>> /\ text[1] \in {"-", "+"} THEN Tail(text) ELSE text
IsDigit(c) == \E k \in 1..10 : Digits[k] = c
DigitValue(c) == (CHOOSE k \in 1..10 : Digits[k] = c) - 1
RECURSIVE Decimal(_)
Decimal(digits) ==
    IF digits = <<>> THEN 0
    ELSE 10 * Decimal(SubSeq(digits, 1, Len(digits) - 1))
            + DigitValue(digits[Len(digits)])

\* The digits of a number as Python reads them: decimal digits, with single
\* underscores allowed between two digits.
IsDigitPart(text) ==
    /\ text # <<>>
    /\ \A k \in 1..Len(text) :
          \/ IsDigit(text[k])
          \/ /\ text[k] = "_"
             /\ 1 < k
             /\ k < Len(text)
             /\ IsDigit(text[k - 1])
             /\ IsDigit(text[k + 1])
DigitsOf(text) == SelectSeq(text, IsDigit)

\* int(ans) of a str: the whitespace around it is stripped, one sign is
\* allowed, and what is left must be the digits of a number; anything else
\* raises ValueError.  (The integers of the model are below 2^31.)
PyInt_digits(text) ==
    IF IsDigitPart(text)
    THEN [exc |-> "none", val |-> Decimal(DigitsOf(text))]
    ELSE [exc |-> "ValueError", val |-> 0]
PyInt_signed(body, digits) ==
    IF digits.exc = "none" /\ body[1] = "-"
    THEN [exc |-> "none", val |-> 0 - digits.val]
    ELSE digits
PyInt(text) ==
    PyInt_signed(RStrip(LStrip(text)), PyInt_digits(Unsigned(RStrip(LStrip(text)))))

\* A float is written here as the decimal a str spells: the digits (without
\* leading and trailing zeros) times ten to the power exp; it stands for the
\* binary64 number nearest to that decimal.  inf and nan are floats too.
Finite(neg, digits, exp) == [kind |-> "finite", neg |-> neg, digits |-> digits, exp |-> exp]
Infinite(neg) == [kind |-> "inf", neg |-> neg, digits |-> <<>>, exp |-> 0]
NaN == [kind |-> "nan", neg |-> FALSE, digits |-> <<>>, exp |-> 0]
\* The default of --dendrogram-threshold.
Half == Finite(FALSE, <<"5">>, -1)

\* The digits from the first that is not 0 on, and up to the last that is not.
StripZerosLeft(digits) ==
    IF \A k \in 1..Len(digits) : digits[k] = "0" THEN <<>>
    ELSE SubSeq(digits,
                CHOOSE k \in 1..Len(digits) :
                    digits[k] # "0" /\ \A j \in 1..(k - 1) : digits[j] = "0",
                Len(digits))
StripZerosRight(digits) ==
    IF \A k \in 1..Len(digits) : digits[k] = "0" THEN <<>>
    ELSE SubSeq(digits, 1,
                CHOOSE k \in 1..Len(digits) :
                    digits[k] # "0" /\ \A j \in (k + 1)..Len(digits) : digits[j] = "0")

\* The comparison of 0.a with 0.b for two digit strings without zeros at
\* their ends, TRUE when 0.a >= 0.b: the first position where they differ
\* decides, and the longer one is the greater when there is none.
FractionGe(a, b) ==
    IF \A k \in 1..Min2(Len(a), Len(b)) : a[k] = b[k] THEN Len(a) >= Len(b)
    ELSE LET k == CHOOSE i \in 1..Min2(Len(a), Len(b)) :
                      a[i] # b[i] /\ \A j \in 1..(i - 1) : a[j] = b[j]
         IN  DigitValue(a[k]) > DigitValue(b[k])

\* The largest binary64 number is 1.7976931348623157e308 and the smallest
\* above zero 5e-324.  Halfway from the largest to 2^1024 lies 2^1024 - 2^970,
\* and a decimal from there on is inf; halfway from zero to 5e-324 lies
\* 2^-1075, and a decimal up to there is zero (at the halfway points the
\* rounding goes to the even neighbour).  HugeDigits are the 309 digits of
\* 2^1024 - 2^970, TinyDigits the 752 digits of 2^-1075 = 5^1075 / 10^1075.
HugeDigits ==
    <<"1", "7", "9", "7", "6", "9", "3", "1", "3", "4", "8", "6", "2", "3", "1", "5", "8",
      "0", "7", "9", "3", "7", "2", "8", "9", "7", "1", "4", "0", "5", "3", "0", "3", "4",
      "1", "5", "0", "7", "9", "9", "3", "4", "1", "3", "2", "7", "1", "0", "0", "3", "7",
      "8", "2", "6", "9", "3", "6", "1", "7", "3", "7", "7", "8", "9", "8", "0", "4", "4",
      "4", "9", "6", "8", "2", "9", "2", "7", "6", "4", "7", "5", "0", "9", "4", "6", "6",
      "4", "9", "0", "1", "7", "9", "7", "7", "5", "8", "7", "2", "0", "7", "0", "9", "6",
      "3", "3", "0", "2", "8", "6", "4", "1", "6", "6", "9", "2", "8", "8", "7", "9", "1",
      "0", "9", "4", "6", "5", "5", "5", "5", "4", "7", "8", "5", "1", "9", "4", "0", "4",
      "0", "2", "6", "3", "0", "6", "5", "7", "4", "8", "8", "6", "7", "1", "5", "0", "5",
      "8", "2", "0", "6", "8", "1", "9", "0", "8", "9", "0", "2", "0", "0", "0", "7", "0",
      "8", "3", "8", "3", "6", "7", "6", "2", "7", "3", "8", "5", "4", "8", "4", "5", "8",
      "1", "7", "7", "1", "1", "5", "3", "1", "7", "6", "4", "4", "7", "5", "7", "3", "0",
      "2", "7", "0", "0", "6", "9", "8", "5", "5", "5", "7", "1", "3", "6", "6", "9", "5",
      "9", "6", "2", "2", "8", "4", "2", "9", "1", "4", "8", "1", "9", "8", "6", "0", "8",
      "3", "4", "9", "3", "6", "4", "7", "5", "2", "9", "2", "7", "1", "9", "0", "7", "4",
      "1", "6", "8", "4", "4", "4", "3", "6", "5", "5", "1", "0", "7", "0", "4", "3", "4",
      "2", "7", "1", "1", "5", "5", "9", "6", "9", "9", "5", "0", "8", "0", "9", "3", "0",
      "4", "2", "8", "8", "0", "1", "7", "7", "9", "0", "4", "1", "7", "4", "4", "9", "7",
      "7", "9", "2">>
TinyDigits ==
    <<"2", "4", "7", "0", "3", "2", "8", "2", "2", "9", "2", "0", "6", "2", "3", "2", "7",
      "2", "0", "8", "8", "2", "8", "4", "3", "9", "6", "4", "3", "4", "1", "1", "0", "6",
      "8", "6", "1", "8", "2", "5", "2", "9", "9", "0", "1", "3", "0", "7", "1", "6", "2",
      "3", "8", "2", "2", "1", "2", "7", "9", "2", "8", "4", "1", "2", "5", "0", "3", "3",
      "7", "7", "5", "3", "6", "3", "5", "1", "0", "4", "3", "7", "5", "9", "3", "2", "6",
      "4", "9", "9", "1", "8", "1", "8", "0", "8", "1", "7", "9", "9", "6", "1", "8", "9",
      "8", "9", "8", "2", "8", "2", "3", "4", "7", "7", "2", "2", "8", "5", "8", "8", "6",
      "5", "4", "6", "3", "3", "2", "8", "3", "5", "5", "1", "7", "7", "9", "6", "9", "8",
      "9", "8", "1", "9", "9", "3", "8", "7", "3", "9", "8", "0", "0", "5", "3", "9", "0",
      "9", "3", "9", "0", "6", "3", "1", "5", "0", "3", "5", "6", "5", "9", "5", "1", "5",
      "5", "7", "0", "2", "2", "6", "3", "9", "2", "2", "9", "0", "8", "5", "8", "3", "9",
      "2", "4", "4", "9", "1", "0", "5", "1", "8", "4", "4", "3", "5", "9", "3", "1", "8",
      "0", "2", "8", "4", "9", "9", "3", "6", "5", "3", "6", "1", "5", "2", "5", "0", "0",
      "3", "1", "9", "3", "7", "0", "4", "5", "7", "6", "7", "8", "2", "4", "9", "2", "1",
      "9", "3", "6", "5", "6", "2", "3", "6", "6", "9", "8", "6", "3", "6", "5", "8", "4",
      "8", "0", "7", "5", "7", "0", "0", "1", "5", "8", "5", "7", "6", "9", "2", "6", "9",
      "9", "0", "3", "7", "0", "6", "3", "1", "1", "9", "2", "8", "2", "7", "9", "5", "5",
      "8", "5", "5", "1", "3", "3", "2", "9", "2", "7", "8", "3", "4", "3", "3", "8", "4",
      "0", "9", "3", "5", "1", "9", "7", "8", "0", "1", "5", "5", "3", "1", "2", "4", "6",
      "5", "9", "7", "2", "6", "3", "5", "7", "9", "5", "7", "4", "6", "2", "2", "7", "6",
      "6", "4", "6", "5", "2", "7", "2", "8", "2", "7", "2", "2", "0", "0", "5", "6", "3",
      "7", "4", "0", "0", "6", "4", "8", "5", "4", "9", "9", "9", "7", "7", "0", "9", "6",
      "5", "9", "9", "4", "7", "0", "4", "5", "4", "0", "2", "0", "8", "2", "8", "1", "6",
      "6", "2", "2", "6", "2", "3", "7", "8", "5", "7", "3", "9", "3", "4", "5", "0", "7",
      "3", "6", "3", "3", "9", "0", "0", "7", "9", "6", "7", "7", "6", "1", "9", "3", "0",
      "5", "7", "7", "5", "0", "6", "7", "4", "0", "1", "7", "6", "3", "2", "4", "6", "7",
      "3", "6", "0", "0", "9", "6", "8", "9", "5", "1", "3", "4", "0", "5", "3", "5", "5",
      "3", "7", "4", "5", "8", "5", "1", "6", "6", "6", "1", "1", "3", "4", "2", "2", "3",
      "7", "6", "6", "6", "7", "8", "6", "0", "4", "1", "6", "2", "1", "5", "9", "6", "8",
      "0", "4", "6", "1", "9", "1", "4", "4", "6", "7", "2", "9", "1", "8", "4", "0", "3",
      "0", "0", "5", "3", "0", "0", "5", "7", "5", "3", "0", "8", "4", "9", "0", "4", "8",
      "7", "6", "5", "3", "9", "1", "7", "1", "1", "3", "8", "6", "5", "9", "1", "6", "4",
      "6", "2", "3", "9", "5", "2", "4", "9", "1", "2", "6", "2", "3", "6", "5", "3", "8",
      "8", "1", "8", "7", "9", "6", "3", "6", "2", "3", "9", "3", "7", "3", "2", "8", "0",
      "4", "2", "3", "8", "9", "1", "0", "1", "8", "6", "7", "2", "3", "4", "8", "4", "9",
      "7", "6", "6", "8", "2", "3", "5", "0", "8", "9", "8", "6", "3", "3", "8", "8", "5",
      "8", "7", "9", "2", "5", "6", "2", "8", "3", "0", "2", "7", "5", "5", "9", "9", "5",
      "6", "5", "7", "5", "2", "4", "4", "5", "5", "5", "0", "7", "2", "5", "5", "1", "8",
      "9", "3", "1", "3", "6", "9", "0", "8", "3", "6", "2", "5", "4", "7", "7", "9", "1",
      "8", "6", "9", "4", "8", "6", "6", "7", "9", "9", "4", "9", "6", "8", "3", "2", "4",
      "0", "4", "9", "7", "0", "5", "8", "2", "1", "0", "2", "8", "5", "1", "3", "1", "8",
      "5", "4", "5", "1", "3", "9", "6", "2", "1", "3", "8", "3", "7", "7", "2", "2", "8",
      "2", "6", "1", "4", "5", "4", "3", "7", "6", "9", "3", "4", "1", "2", "5", "3", "2",
      "0", "9", "8", "5", "9", "1", "3", "2", "7", "6", "6", "7", "2", "3", "6", "3", "2",
      "8", "1", "2", "5">>
HugeExp == 308
TinyExp == 324
Rounded(neg, digits, shifted) ==
    IF digits = <<>> THEN Finite(neg, <<>>, 0)
    ELSE IF \/ shifted + Len(digits) - 1 > HugeExp
            \/ shifted + Len(digits) - 1 = HugeExp /\ FractionGe(digits, HugeDigits)
    THEN Infinite(neg)
    ELSE IF \/ shifted + Len(digits) - 1 < 0 - TinyExp
            \/ shifted + Len(digits) - 1 = 0 - TinyExp /\ FractionGe(TinyDigits, digits)
    THEN Finite(neg, <<>>, 0)
    ELSE Finite(neg, digits, shifted)

\* whole.frac e exp, the digits freed of their zeros at both ends.
Scientific(neg, whole, frac, exp) ==
    Rounded(neg, StripZerosRight(StripZerosLeft(whole \o frac)),
            exp - Len(frac)
                + (Len(StripZerosLeft(whole \o frac))
                      - Len(StripZerosRight(StripZerosLeft(whole \o frac)))))

\* str.lower() on the letters float looks at.
Lower(c) ==
    CASE c = "A" -> "a" [] c = "E" -> "e" [] c = "F" -> "f" [] c = "I" -> "i"
      [] c = "N" -> "n" [] c = "T" -> "t" [] c = "Y" -> "y" [] OTHER -> c
LowerStr(text) == [k \in 1..Len(text) |-> Lower(text[k])]

\* The position of the first character c of text, Len(text) + 1 without one.
FirstAt(text, c) ==
    IF \E k \in 1..Len(text) : text[k] = c
    THEN CHOOSE k \in 1..Len(text) : text[k] = c /\ \A j \in 1..(k - 1) : text[j] # c
    ELSE Len(text) + 1
PointAt(text) == FirstAt(text, ".")

\* float(ans2) of a str.  The whitespace around it is stripped and one sign is
\* allowed; what is left is, in any case of the letters, inf, infinity or nan,
\* or a decimal: digits with or without a point (digits on at least one side
\* of it), then possibly e, a sign and the digits of the exponent.  Anything
\* else raises ValueError.
PyFloat_exponent(text) ==
    IF text = <<>> THEN [exc |-> "none", val |-> 0]
    ELSE IF ~IsDigitPart(Unsigned(Tail(text))) THEN [exc |-> "ValueError", val |-> 0]
    ELSE [exc |-> "none",
          val |-> IF text[2] = "-" THEN 0 - Decimal(DigitsOf(Tail(text)))
                  ELSE Decimal(DigitsOf(Tail(text)))]
PyFloat_digits(neg, whole, frac, exponent) ==
    IF /\ whole = <<>> \/ IsDigitPart(whole)
       /\ frac = <<>> \/ IsDigitPart(frac)
       /\ whole \o frac # <<>>
       /\ exponent.exc = "none"
    THEN [exc |-> "none",
          val |-> Scientific(neg, DigitsOf(whole), DigitsOf(frac), exponent.val)]
    ELSE [exc |-> "ValueError", val |-> NaN]
PyFloat_decimal(neg, mantissa, exponent) ==
    PyFloat_digits(neg, SubSeq(mantissa, 1, PointAt(mantissa) - 1),
                   SubSeq(mantissa, PointAt(mantissa) + 1, Len(mantissa)), exponent)
PyFloat_unsigned(neg, text) ==
    IF text \in {<<"i", "n", "f">>, <<"i", "n", "f", "i", "n", "i", "t", "y">>}
    THEN [exc |-> "none", val |-> Infinite(neg)]
    ELSE IF text = <<"n", "a", "n">> THEN [exc |-> "none", val |-> NaN]
    ELSE PyFloat_decimal(neg, SubSeq(text, 1, FirstAt(text, "e") - 1),
                         PyFloat_exponent(SubSeq(text, FirstAt(text, "e"), Len(text))))
PyFloat_signed(body) ==
    PyFloat_unsigned(body # <<>> /\ body[1] = "-", LowerStr(Unsigned(body)))
PyFloat(text) == PyFloat_signed(RStrip(LStrip(text)))

\* One pass of the loop of ask_number_cluster: the prompt, the read, and what
\* follows the read (return int(ans); print "Invalid input." and loop;
\* sys.exit(0) at KeyboardInterrupt).  EOFError is not caught.
ask_pass_once(p, event, parsed) ==
    IF event.key = "interrupt"
    THEN [p EXCEPT !.pc = "exited", !.status = 0, !.prompts = @ + 1]
    ELSE IF parsed.exc = "none"
    THEN [p EXCEPT !.pc = "returned", !.val = parsed.val, !.prompts = @ + 1]
    ELSE [p EXCEPT !.pc = "raised", !.exc = parsed.exc, !.prompts = @ + 1,
                   !.printed = @ + 1]
ask_pass(p, event, parsed) ==
    IF event.key = "interrupt"
    THEN [p EXCEPT !.pc = "exited", !.status = 0, !.prompts = @ + 1]
    ELSE IF parsed.exc = "none"
    THEN [p EXCEPT !.pc = "returned", !.val = parsed.val, !.prompts = @ + 1]
    ELSE [p EXCEPT !.prompts = @ + 1, !.printed = @ + 1]
ask_number_cluster ==
    /\ proc.pc = "ask_number_cluster"
    /\ IF stdin = <<>>
       THEN /\ proc' = [proc EXCEPT !.pc = "raised", !.exc = "EOFError",
                                    !.prompts = @ + 1]
            /\ stdin' = stdin
       ELSE /\ proc' = ask_pass(proc, Head(stdin), PyInt(Head(stdin).text))
            /\ stdin' = Tail(stdin)

AskInit ==
    /\ pathways = <<>>
    /\ dictionary = <<>>
    /\ distmat = <<>>
    /\ weights = <<>>
    /\ cluster_labels = <<>>
    /\ fs = {}
    /\ ret = NoCall
    /\ stdin \in Terminals
    /\ hist = stdin
    /\ proc = [pc |-> "ask_number_cluster", prompts |-> 0, printed |-> 0,
               status |-> -1, val |-> 0, exc |-> "none"]

AskNext ==
    /\ ask_number_cluster
    /\ UNCHANGED <<pathways, dictionary, distmat, weights, cluster_labels, fs, ret, hist>>

SpecAsk == AskInit /\ [][AskNext]_vars

\* The answers read so far; hist keeps everything the user does in the behaviour.
Consumed == SubSeq(hist, 1, Len(hist) - Len(stdin))
Parses(event) == event.key = "line" /\ PyInt(event.text).exc = "none"
Stops(event) == event.key = "interrupt" \/ Parses(event)

\* C18: ask_number_cluster asks again after every answer that is not an
\* integer, returns the first answer that is one (as an int) and reads no
\* answer after it, and exits with status 0 at an interrupt at any prompt.
C18_FirstIntegerOrCleanExit ==
    /\ proc.prompts >= Len(Consumed)
    /\ \A k \in 1..(Len(Consumed) - 1) : ~Stops(Consumed[k])
    /\ proc.printed = Len(Consumed) - (IF proc.pc \in {"returned", "exited"} THEN 1 ELSE 0)
    /\ proc.pc = "ask_number_cluster"
          => /\ proc.prompts = Len(Consumed)
             /\ \A k \in 1..Len(Consumed) : ~Stops(Consumed[k])
    /\ proc.pc = "returned"
          => /\ proc.prompts = Len(Consumed)
             /\ Parses(Consumed[Len(Consumed)])
             /\ proc.val = PyInt(Consumed[Len(Consumed)].text).val
    /\ proc.pc = "exited"
          => /\ proc.prompts = Len(Consumed)
             /\ Consumed[Len(Consumed)] = Interrupt
             /\ proc.status = 0
    /\ proc.pc = "raised"
          => /\ proc.exc = "EOFError"
             /\ stdin = <<>>
             /\ \A k \in 1..Len(hist) : ~Stops(hist[k])

\* "1__0", which is no integer, then "1_0", which is 10, with one more answer
\* typed after it that is left unread.
C18_Witness ==
    /\ proc.pc = "returned"
    /\ proc.val = 10
    /\ proc.printed = 1
    /\ Len(Consumed) = 2
    /\ Consumed[1] = Line(<<"1", "_", "_", "0">>)
    /\ Consumed[2] = Line(<<"1", "_", "0">>)
    /\ Len(stdin) = 1

\* ------------------------------------------------------- the dendrogram
\* sys.setrecursionlimit(100000)
RaisedLimit == 100000

\* sys.getrecursionlimit() when visualize is called: the limit of an
\* interpreter nobody has tuned, and 100000, which is also what an earlier
\* visualize of the same process leaves behind.
InitialLimits == {1000, RaisedLimit}

\* The depth of the frame of visualize on the call stack under the limit
\* limit: a short stack; one that leaves room for a plain call but not for
\* the descent of a tree with a merge (two frames and one frame left); and
\* one at the limit, where visualize can call nothing.
StackDepths(limit) == {10, limit - 2, limit - 1, limit}

\* The number of merges on the longest way from a node down to a leaf;
\* sch.dendrogram descends the tree recursively, one level per merge.
RECURSIVE TreeDepth(_, _, _)
TreeDepth(Z, n, node) ==
    IF node < n THEN 0
    ELSE 1 + Max2(TreeDepth(Z, n, Z[node - n + 1].a), TreeDepth(Z, n, Z[node - n + 1].b))

\* sch.dendrogram(z, no_labels=True, color_threshold=threshold) called from
\* the frame at depth stack under the recursion limit limit: its own frame is
\* at stack + 1 and the descent adds one frame for every node on the way from
\* the root to the deepest leaf.  RecursionError when a frame would lie beyond
\* the limit, the drawing otherwise.
dendrogram(Z, n, threshold, stack, limit) ==
    IF stack + 2 + TreeDepth(Z, n, 2 * n - 2) > limit
    THEN [exc |-> "RecursionError", val |-> <<>>]
    ELSE [exc |-> "none", val |-> [z |-> Z, color_threshold |-> threshold]]

\* sys.setrecursionlimit(new_limit) called from the frame at depth stack:
\* CPython 3.11 refuses, with RecursionError, a limit that the depth of the
\* call (stack + 1) has reached, whatever the limit was before.
setrecursionlimit(new_limit, stack, limit) ==
    IF stack + 1 >= new_limit
    THEN [exc |-> "RecursionError", limit |-> limit]
    ELSE [exc |-> "none", limit |-> new_limit]

\* What visualize leaves behind: the exception (or none), the outcomes of the
\* renderings it made, the recursion limit, and the files.
vis_result(exc, attempts, limit, files) ==
    [exc |-> exc, attempts |-> attempts, limit |-> limit, files |-> files]

\* plt.axhline ... plt.savefig(f"{out_dir}/dendrogram.pdf") after a rendering.
vis_save(drawing, attempts, limit, files, out_dir) ==
    vis_result("none", attempts, limit,
               WriteFile(files, out_dir \o <<"dendrogram", ".pdf">>, drawing.val))

\* The rendering of the except branch, which is outside any try.
vis_second(second, limit, files, out_dir) ==
    IF second.exc # "none"
    THEN vis_result(second.exc, <<"RecursionError", second.exc>>, limit, files)
    ELSE vis_save(second, <<"RecursionError", "none">>, limit, files, out_dir)

vis_giveup(Z, n, threshold, stack, files, out_dir) ==
    vis_result("RecursionError", <<"RecursionError">>, RaisedLimit, files)

vis_retry(Z, n, threshold, stack, files, out_dir) ==
    vis_second(dendrogram(Z, n, threshold, stack, RaisedLimit), RaisedLimit, files, out_dir)

\* log.warning(msg) of the logger lpath.match called from the frame at depth
\* stack: the call runs in Python frames of the logging package, and a
\* RecursionError in them leaves log.warning (up to the handler's emit, which
\* catches it).  How many frames that takes depends on the logging
\* configuration, so the number is an input of the call: in CPython 3.11
\* LoudFrames for a logger that hands warnings to a handler (the default
\* configuration, and that of --debug), QuietFrames for one whose level
\* leaves warnings out and has been asked about before.
QuietFrames == 2
LoudFrames == 11
WarningDepths == {QuietFrames, LoudFrames}
log_warning(warn, stack, limit) ==
    IF stack + warn > limit THEN [exc |-> "RecursionError"] ELSE [exc |-> "none"]

\* The except branch: the limit is set, which can fail; the two warnings are
\* logged, which can fail too; and the rendering is made again.
vis_except(Z, n, threshold, warn, stack, limit, files, out_dir) ==
    IF setrecursionlimit(RaisedLimit, stack, limit).exc # "none"
    THEN vis_result(setrecursionlimit(RaisedLimit, stack, limit).exc,
                    <<"RecursionError">>, limit, files)
    ELSE IF log_warning(warn, stack, RaisedLimit).exc # "none"
    THEN vis_result(log_warning(warn, stack, RaisedLimit).exc,
                    <<"RecursionError">>, RaisedLimit, files)
    ELSE vis_retry(Z, n, threshold, stack, files, out_dir)

vis_first(first, Z, n, threshold, warn, stack, limit, files, out_dir) ==
    IF first.exc = "RecursionError"
    THEN vis_except(Z, n, threshold, warn, stack, limit, files, out_dir)
    ELSE vis_save(first, <<"none">>, limit, files, out_dir)

\* import matplotlib.pyplot as plt: for a module that is in sys.modules the
\* statement runs no Python frame.  Otherwise the import machinery
\* (importlib._bootstrap._find_and_load and below) runs in Python frames on
\* top of visualize.  How many it stacks depends on the interpreter and on
\* the package, so the number is an input of the call: in CPython 3.11 the
\* search for a module that is not installed takes FindFrames of them, and
\* PathFrames when an entry of sys.path has not been looked at before (as
\* after the sys.path.append of main); loading an installed package of one
\* file takes LoadFrames, and a package that imports others in turn more,
\* for which DeepFrames stands.  A RecursionError in there is neither a
\* ModuleNotFoundError nor an ImportError and leaves visualize.
FindFrames == 12
PathFrames == 16
LoadFrames == 16
DeepFrames == 64
ImportDepths(plt) ==
    IF plt = "imported" THEN {0}
    ELSE IF plt = "installed" THEN {LoadFrames, DeepFrames}
    ELSE {FindFrames, PathFrames}
ImportFrames(plt, frames) == IF plt = "imported" THEN 0 ELSE frames

\* matplotlib.pyplot after visualize has returned r: a first import that went
\* through (a rendering was attempted) leaves the module in sys.modules.
sys_modules(plt, r) ==
    IF plt = "installed" /\ r.attempts # <<>> THEN "imported" ELSE plt

\* visualize(distmat, threshold, out_dir, show) in an interpreter with the
\* recursion limit limit, its frame at depth stack; plt tells whether
\* matplotlib.pyplot is "absent", "installed" or already "imported", and
\* frames how deep its import goes, warn how deep a log.warning.  The first
\* call visualize makes, squareform, is outside the try: at the limit it
\* raises RecursionError, which nothing catches.
visualize_linked(z, n, threshold, out_dir, plt, frames, warn, stack, limit, files) ==
    IF z.exc # "none" THEN vis_result(z.exc, <<>>, limit, files)
    ELSE IF stack + ImportFrames(plt, frames) > limit
    THEN vis_result("RecursionError", <<>>, limit, files)
    ELSE IF plt = "absent" THEN vis_result("none", <<>>, limit, files)
    ELSE vis_first(dendrogram(z.val, n, threshold, stack, limit),
                   z.val, n, threshold, warn, stack, limit, files, rsplit_head(out_dir))

visualize(X, threshold, out_dir, plt, frames, warn, stack, limit, files) ==
    IF stack + 1 > limit THEN vis_result("RecursionError", <<>>, limit, files)
    ELSE
    visualize_linked(linkage(squareform(X), Len(X)), Len(X), threshold, out_dir,
                     plt, frames, warn, stack, limit, files)

\* The containers of the drawn matrices: one pathway, or the pathway 0! and
\* up to MaxObs - 1 others.
VisContainers ==
    {pws \in ClusterContainers :
        Len(pws) >= 2 => pws[1] = <<RealFrame(1, 0), PadFrame(2)>>}

VisInit ==
    /\ dictionary = identity_dictionary(2)
    /\ pathways \in VisContainers
    /\ distmat = pairwise_distances([i \in 1..Len(pathways) |-> StateColumn(pathways[i])],
                                    TRUE, dictionary, 1).val
    /\ weights = <<>>
    /\ cluster_labels = <<>>
    /\ fs = {}
    /\ ret = NoCall
    /\ hist = <<>>
    /\ \E limit \in InitialLimits, plt \in {"absent", "installed", "imported"} :
          \E stack \in StackDepths(limit), frames \in ImportDepths(plt),
             warn \in WarningDepths :
             proc = [pc |-> "visualize", recursionlimit |-> limit, stack |-> stack,
                     matplotlib |-> plt, import_frames |-> frames,
                     warning_frames |-> warn]
    /\ stdin = <<>>

CallVisualize(threshold, show) ==
    /\ ret.op = "none"
    /\ LET r == visualize(distmat, threshold, DefaultOutDir, proc.matplotlib,
                          proc.import_frames, proc.warning_frames, proc.stack,
                          proc.recursionlimit, fs)
       IN  /\ ret' = [op |-> "visualize", exc |-> r.exc, attempts |-> r.attempts,
                      threshold |-> threshold,
                      shown |-> (show /\ r.exc = "none" /\ r.attempts # <<>>),
                      limit_before |-> proc.recursionlimit]
           /\ proc' = [proc EXCEPT !.recursionlimit = r.limit, !.pc = "done",
                                   !.matplotlib = sys_modules(@, r)]
           /\ fs' = r.files
    /\ UNCHANGED <<pathways, dictionary, distmat, weights, cluster_labels, hist, stdin>>

VisNext ==
    \E threshold \in {Half}, show \in BOOLEAN : CallVisualize(threshold, show)

SpecVis == VisInit /\ [][VisNext]_vars


\* visualize got as far as the retry: the limit could be set and the two
\* warnings could be logged.
ReachesRetry ==
    /\ proc.stack + 1 < RaisedLimit
    /\ proc.stack + proc.warning_frames <= RaisedLimit

\* frames, the latest frame first (every reassignment reverses it).

\* numpy.zeros((npathways, lpathways, n), dtype=object)
zeros(npathways, lpathways, n) ==
    [i \in 1..npathways |-> [j \in 1..lpathways |-> [k \in 1..n |-> 0]]]

\* max([len(i) for i in data])
RECURSIVE MaxLength(_)
MaxLength(data) ==
    IF Len(data) = 1 THEN Len(data[1])
    ELSE Max2(Len(data[1]), MaxLength(Tail(data)))

\* load_data(file_name): the list in the pickle and the empty container for
\* it; an empty list fails the assertion before the container is made.
load_data_built(data) ==
    [exc |-> "none", data |-> data,
     pathways |-> zeros(Len(data), MaxLength(data), Len(data[1][1]))]
load_data_unchecked(data) ==
    IF Len(data) = 0
    THEN [exc |-> "none", data |-> data, pathways |-> <<>>]
    ELSE load_data_built(data)
load_data_checked(data) ==
    IF Len(data) = 0
    THEN [exc |-> "AssertionError", data |-> <<>>, pathways |-> <<>>]
    ELSE load_data_built(data)
load_data(files, file_name) ==
    IF ~exists(files, file_name)
    THEN [exc |-> "FileNotFoundError", data |-> <<>>, pathways |-> <<>>]
    ELSE load_data_checked(FileContent(files, file_name))

\* numpy.asarray(val)[::-1]
Flip(val) == [j \in 1..Len(val) |-> val[Len(val) - j + 1]]

\* for idx2, val2 in enumerate(flipped_val): pathways[idx, idx2] = val2
copy_flipped(data, pws) ==
    [i \in 1..Len(pws) |-> [j \in 1..Len(pws[i]) |->
        IF j <= Len(data[i]) THEN Flip(data[i])[j] ELSE pws[i][j]]]

\* A variant of copy_segid that takes the iteration number as the state.
copy_segid_iter(data, pws) ==
    [i \in 1..Len(pws) |-> [j \in 1..Len(pws[i]) |->
        IF j <= Len(data[i])
        THEN [Flip(data[i])[j] EXCEPT ![3] = Flip(data[i])[j][1]]
        ELSE pws[i][j]]]

\* pathways[idx, idx2, 2] = val2[1] on the frames that were copied
copy_segid(data, pws) ==
    [i \in 1..Len(pws) |-> [j \in 1..Len(pws[i]) |->
        IF j <= Len(data[i])
        THEN [Flip(data[i])[j] EXCEPT ![3] = Flip(data[i])[j][2]]
        ELSE pws[i][j]]]

\* max([seg[2] for traj in pathways for seg in traj])
MaxStateId(pws) ==
    CHOOSE m \in {pws[i][j][3] : i \in 1..Len(pws), j \in 1..Len(pws[1])} :
        \A i \in 1..Len(pws), j \in 1..Len(pws[1]) : pws[i][j][3] <= m

reassigned(pws, d) == [exc |-> "none", pathways |-> pws, dictionary |-> d]

reassign_identity_tight(data, pws, files, assign_file) ==
    reassigned(copy_flipped(data, pws),
               identity_dictionary(MaxStateId(copy_flipped(data, pws))))

reassign_identity(data, pws, files, assign_file) ==
    reassigned(copy_flipped(data, pws),
               identity_dictionary(MaxStateId(copy_flipped(data, pws)) + 1))

reassign_segid(data, pws, files, assign_file) ==
    reassigned(copy_segid(data, pws),
               segid_dictionary(MaxStateId(copy_segid(data, pws)) + 1))

\* tostr(b) of a bytes or str label
tostr(b) == b.val

\* reassign_statelabel: the frames are copied first; then the labels of
\* assign.h5 become the dictionary, followed by the unknown state.  h5py.File
\* raises FileNotFoundError for a file that is not there.
reassign_statelabel(data, pws, files, assign_file) ==
    IF ~exists(files, assign_file)
    THEN [exc |-> "FileNotFoundError", pathways |-> copy_flipped(data, pws),
          dictionary |-> <<>>]
    ELSE reassigned(copy_flipped(data, pws),
                    [k \in 1..Len(FileContent(files, assign_file).state_labels) |->
                        tostr(FileContent(files, assign_file).state_labels[k])]
                    \o <<<<"!">>>>)

\* numpy.where(flipped_val[:, 3] < 5)[0][0]: the index, from 0, of the first
\* frame whose column 3 is below 5; -1 stands for the IndexError of [0][0] on
\* an empty result.
RECURSIVE first_contact(_, _)
first_contact(flipped_val, idx2) ==
    IF idx2 >= Len(flipped_val) THEN -1
    ELSE IF flipped_val[idx2 + 1][4] < 5 THEN idx2
    ELSE first_contact(flipped_val, idx2 + 1)

\* The state reassign_custom gives a frame: 1, 3, 4, 6, 7, 9 are merged into
\* 0 and 2, 5, 8 into 1, any other id is kept; the frames before the first
\* contact get the unknown state 2.
custom_state(state, idx2, contact) ==
    IF idx2 < contact THEN 2
    ELSE IF state \in {1, 3, 4, 6, 7, 9} THEN 0
    ELSE IF state \in {2, 5, 8} THEN 1
    ELSE state

\* for idx2, val2 in enumerate(flipped_val): ... pathways[idx, idx2] = val2
custom_row(flipped_val, row) ==
    [j \in 1..Len(row) |->
        IF j <= Len(flipped_val)
        THEN [flipped_val[j] EXCEPT
                 ![3] = custom_state(@, j - 1, first_contact(flipped_val, 0))]
        ELSE row[j]]

\* reassign_custom, from pathway idx on: a pathway without a first contact
\* ends the loop with IndexError, the pathways before it already written.
\* assign_file is not read.
RECURSIVE custom_loop(_, _, _)
custom_loop(data, pws, idx) ==
    IF idx > Len(data) THEN reassigned(pws, <<<<"A">>, <<"B">>, <<"!">>>>)
    ELSE IF first_contact(Flip(data[idx]), 0) = -1
    THEN [exc |-> "IndexError", pathways |-> pws, dictionary |-> <<>>]
    ELSE custom_loop(data, [pws EXCEPT ![idx] = custom_row(Flip(data[idx]), @)], idx + 1)

reassign_custom(data, pws, files, assign_file) == custom_loop(data, pws, 1)

\* The preset strategies of main.
reassign(method, data, pws, files, assign_file) ==
    IF method = "reassign_identity" THEN reassign_identity(data, pws, files, assign_file)
    ELSE IF method = "reassign_segid" THEN reassign_segid(data, pws, files, assign_file)
    ELSE IF method = "reassign_custom" THEN reassign_custom(data, pws, files, assign_file)
    ELSE reassign_statelabel(data, pws, files, assign_file)

\* A pathway of r frames as extract stores it: place k holds the frame of
\* iteration r - k + 1, whose weight is its iteration number.
DataPathways ==
    UNION {{[k \in 1..r |-> <<r - k + 1, seg[k], st[k], r - k + 1>>]
                : seg \in [1..r -> 0..1], st \in [1..r -> 0..(MaxStates - 1)]}
            : r \in 1..MaxLen}
\* Pathways whose column 3 reaches 5: the first contact of the first is at
\* its second frame, the second has none.
FarPathways == {<<<<2, 0, 1, 2>>, <<1, 0, 1, 5>>>>, <<<<1, 0, 1, 5>>>>}
DataSets == UNION {[1..N -> DataPathways \cup FarPathways] : N \in 1..2}

\* The defaults of --input-pickle and --assign-h5file.
DefaultInputPickle == <<"succ_traj", "output", ".pickle">>
DefaultAssignName == <<"ANALYSIS", "TEST", "assign", ".h5">>

\* assign.h5 with n_labels state labels a, b, c, ..., stored as bytes.
AssignFile(n_labels) ==
    [state_labels |-> [k \in 1..n_labels |->
                          [type |-> "bytes",
                           val |-> <<(<<"a", "b", "c", "d", "e", "f", "g", "h">>)[k]>>]]]

PrepInit ==
    /\ pathways = <<>>
    /\ dictionary = <<>>
    /\ distmat = <<>>
    /\ weights = <<>>
    /\ cluster_labels = <<>>
    /\ \E data \in DataSets, n_labels \in {MaxStates - 1, MaxStates} :
          fs = {[path |-> DefaultInputPickle, content |-> data],
                [path |-> DefaultAssignName, content |-> AssignFile(n_labels)]}
    /\ ret = NoCall
    /\ hist = <<>>
    /\ proc = [pc |-> "load_data", data |-> <<>>, method |-> "none"]
    /\ stdin = <<>>

\* data, pathways = load_data(arguments.input_pickle)
PrepLoad ==
    /\ proc.pc = "load_data"
    /\ LET r == load_data(fs, DefaultInputPickle)
       IN  /\ ret' = [op |-> "load_data", exc |-> r.exc]
           /\ proc' = [proc EXCEPT !.pc = IF r.exc = "none" THEN "reassign" ELSE "raised",
                                   !.data = r.data]
           /\ pathways' = r.pathways
    /\ UNCHANGED <<dictionary, distmat, weights, cluster_labels, fs, hist, stdin>>

\* dictionary = reassign(data, pathways, dictionary, arguments.assign_name)
PrepReassign(method) ==
    /\ proc.pc = "reassign"
    /\ LET r == reassign(method, proc.data, pathways, fs, DefaultAssignName)
       IN  /\ ret' = [op |-> method, exc |-> r.exc]
           /\ proc' = [proc EXCEPT !.pc = IF r.exc = "none" THEN "expand_shorter_traj"
                                          ELSE "raised",
                                   !.method = method]
           /\ pathways' = r.pathways
           /\ dictionary' = r.dictionary
    /\ UNCHANGED <<distmat, weights, cluster_labels, fs, hist, stdin>>

\* expand_shorter_traj(pathways, dictionary)
PrepExpand ==
    /\ proc.pc = "expand_shorter_traj"
    /\ pathways' = expand_shorter_traj(pathways, dictionary)
    /\ ret' = [op |-> "expand_shorter_traj", exc |-> "none"]
    /\ proc' = [proc EXCEPT !.pc = "expanded"]
    /\ UNCHANGED <<dictionary, distmat, weights, cluster_labels, fs, hist, stdin>>

PrepNext ==
    \/ PrepLoad
    \/ \E method \in {"reassign_identity", "reassign_segid", "reassign_statelabel",
                      "reassign_custom"} :
          PrepReassign(method)
    \/ PrepExpand

SpecPrep == PrepInit /\ [][PrepNext]_vars

\* Every state id of the loaded data is below the number of state labels.
StatesLabelled ==
    \A i \in 1..Len(proc.data) : \A k \in 1..Len(proc.data[i]) :
        proc.data[i][k][3] < Len(dictionary) - 1

\* C20: after reassign_identity or reassign_segid (or reassign_statelabel on
\* data whose state ids are all below the number of labels) and then
\* expand_shorter_traj, a frame has the unknown state len(dictionary) - 1
\* exactly when it is a padding frame (iteration_id = 0), and the state of
\* every real frame is a key of the dictionary.
C20_UnknownOnlyInPadding ==
    (/\ proc.pc = "expanded"
     /\ proc.method # "reassign_custom"
     /\ proc.method = "reassign_statelabel" => StatesLabelled)
    => \A i \in 1..Len(pathways) : \A j \in 1..Len(pathways[i]) :
          /\ (pathways[i][j][3] = Len(dictionary) - 1) <=> (pathways[i][j][1] = 0)
          /\ pathways[i][j][1] # 0 => pathways[i][j][3] \in 0..(Len(dictionary) - 1)

\* Two pathways of different lengths after reassign_segid and the padding:
\* the shorter one ends in a padding frame, the longer one does not.
C20_Witness ==
    /\ proc.pc = "expanded"
    /\ proc.method = "reassign_segid"
    /\ Len(pathways) = 2
    /\ Len(pathways[1]) = 2
    /\ pathways[1][2][1] = 0
    /\ pathways[2][2][1] # 0
    /\ pathways[2][2][3] = 1

\* ------------------------------------------------------ the match step
\* main(arguments), one action per statement of its body.  proc.pc is the
\* statement main is at, proc.args the Namespace, and hist the log of the
\* statements main has executed, each with its exception (or none).

\* The names main looks up in preset_reassign.
preset_reassign ==
    {"reassign_identity", "reassign_statelabel", "reassign_custom", "reassign_segid"}

\* get_object(object_name) of lpath.extloader: the object a qualified name
\* "module.symbol" stands for, of the modules that can be imported; a fatal
\* error for any other name.
Importable ==
    [name \in {"lpath.match.reassign_identity", "lpath.match.reassign_segid"} |->
        IF name = "lpath.match.reassign_identity" THEN "reassign_identity"
        ELSE "reassign_segid"]
get_object(object_name) ==
    IF object_name \in DOMAIN Importable
    THEN [exc |-> "none", val |-> Importable[object_name]]
    ELSE [exc |-> "ImportError", val |-> "none"]

\* The first statement of main: reassign is the preset of that name, or what
\* get_object finds.
resolve_any(reassign_method) ==
    [exc |-> "none", val |-> reassign_method]
resolve(reassign_method) ==
    IF reassign_method \in preset_reassign
    THEN [exc |-> "none", val |-> reassign_method]
    ELSE get_object(reassign_method)

\* The loop of determine_rerun on the terminal q, one step for every input()
\* it waits in: [proc, stdin, files] after the step.  At the question, 'y'
\* goes on to the input() of the threshold, which draws again (into the
\* default out_dir, and shown) and returns to the question; 'n' or an empty
\* answer leaves the loop, and main goes on to ask_number_cluster; any other
\* answer goes on to input("Invalid input.\n"), which reads one more line,
\* drops it and returns to the question.  KeyboardInterrupt at any read is
\* sys.exit(0); EOFError and the exceptions of float and visualize are not
\* caught.
rerun_state(p, q, files) == [proc |-> p, stdin |-> q, files |-> files]
rerun_raised(p, q, files, exc) ==
    rerun_state([p EXCEPT !.pc = "raised", !.exc = exc], q, files)
rerun_exited(p, q, files) ==
    rerun_state([p EXCEPT !.pc = "exited", !.status = 0], q, files)
rerun_drawn(p, q, files, r) ==
    IF r.exc # "none"
    THEN rerun_raised([p EXCEPT !.recursionlimit = r.limit,
                                !.matplotlib = sys_modules(@, r)], q, r.files, r.exc)
    ELSE rerun_state([p EXCEPT !.recursionlimit = r.limit, !.pc = "determine_rerun",
                               !.matplotlib = sys_modules(@, r)],
                     q, r.files)
rerun_threshold(p, q, files, X, threshold) ==
    IF threshold.exc # "none" THEN rerun_raised(p, q, files, threshold.exc)
    ELSE rerun_drawn(p, q, files,
                     visualize(X, threshold.val, DefaultOutDir, p.matplotlib,
                               p.import_frames, p.warning_frames, p.stack + 2,
                               p.recursionlimit, files))
rerun_yes(p, q, files, X) ==
    IF q = <<>> THEN rerun_raised(p, q, files, "EOFError")
    ELSE IF Head(q).key = "interrupt" THEN rerun_exited(p, Tail(q), files)
    ELSE rerun_threshold(p, Tail(q), files, X, PyFloat(Head(q).text))
rerun_invalid(p, q, files) ==
    IF q = <<>> THEN rerun_raised(p, q, files, "EOFError")
    ELSE IF Head(q).key = "interrupt" THEN rerun_exited(p, Tail(q), files)
    ELSE rerun_state([p EXCEPT !.pc = "determine_rerun"], Tail(q), files)
rerun_pass(p, q, files) ==
    IF q = <<>> THEN rerun_raised(p, q, files, "EOFError")
    ELSE IF Head(q).key = "interrupt" THEN rerun_exited(p, Tail(q), files)
    ELSE IF Head(q).text \in {<<"y">>, <<"Y">>}
    THEN rerun_state([p EXCEPT !.pc = "rerun_threshold"], Tail(q), files)
    ELSE IF Head(q).text \in {<<"n">>, <<"N">>, <<>>}
    THEN rerun_state([p EXCEPT !.pc = "ask_number_cluster"], Tail(q), files)
    ELSE rerun_state([p EXCEPT !.pc = "rerun_invalid"], Tail(q), files)

\* The defaults of --output-pickle and --cl-output.
DefaultOutputPickle == <<"succ_traj", "pathways", ".pickle">>
DefaultClOutput == <<"succ_traj", "cluster_labels", ".npy">>

\* The pickles of the modelled runs: the empty list, and one, two and three
\* pathways of a simulation of two iterations with two segments each.
MainData ==
    {<<>>,
     << <<<<2, 0, 1, 2>>, <<1, 0, 0, 1>>>> >>,
     << <<<<2, 0, 1, 2>>, <<1, 0, 0, 1>>>>, <<<<1, 1, 0, 1>>>> >>,
     << <<<<2, 0, 1, 2>>, <<1, 0, 0, 1>>>>, <<<<1, 1, 0, 1>>>>,
        <<<<2, 1, 0, 2>>, <<1, 1, 1, 1>>>> >>}

\* What the users of the modelled runs do at the terminal.
MainTerminals ==
    {<<Line(<<>>), Line(<<"2">>)>>,
     <<Line(<<"n">>), Line(<<"3">>)>>,
     <<Line(<<"y">>), Line(<<"0", ".", "5">>), Line(<<"N">>), Line(<<"a">>), Line(<<"2">>)>>,
     <<Line(<<"q">>), Line(<<"n">>), Line(<<>>), Line(<<"2">>)>>,
     <<Line(<<"y">>), Line(<<"a">>)>>,
     <<Line(<<"Y">>), Line(<<"1", "e", "1">>), Line(<<"y">>), Line(<<"n", "a", "n">>),
       Line(<<>>), Line(<<"\t", "2">>)>>,
     <<Line(<<>>), Line(<<VerticalTab, "2">>)>>,
     <<Line(<<>>), Interrupt>>,
     <<Interrupt>>,
     <<Line(<<"y">>)>>}

\* --remake-parallel: None without the option, the int given with it.
\* pairwise_distances runs one job for None.
NoneJobs == [given |-> FALSE, val |-> 0]
Jobs(n) == [given |-> TRUE, val |-> n]
effective_n_jobs(n_jobs) == IF n_jobs.given THEN n_jobs.val ELSE 1

\* The Namespace of `lpath match` without any option (argparser.py).
DefaultArgs ==
    [input_pickle |-> DefaultInputPickle, output_pickle |-> DefaultOutputPickle,
     cl_output |-> DefaultClOutput, reassign_method |-> "reassign_identity",
     assign_name |-> DefaultAssignName, longest_subsequence |-> TRUE,
     dmatrix_remake |-> TRUE, dmatrix_save |-> DefaultFileName,
     dmatrix_parallel |-> NoneJobs, dendrogram_threshold |-> Half,
     dendrogram_show |-> TRUE, clusters |-> NoneClusters, we |-> FALSE,
     export_h5 |-> FALSE, out_dir |-> DefaultOutDir, west_name |-> DefaultWestName,
     stats |-> FALSE]

\* The command lines of the modelled runs: those that choose the strategy
\* and the export, and those that choose how the distance matrix is made
\* (--no-remake, --substring, --remake-parallel 2, --remake-file dm.npy,
\* --out-dir .).
ExportArgs ==
    {[DefaultArgs EXCEPT !.reassign_method = method, !.we = we, !.export_h5 = export_h5,
                         !.stats = stats, !.clusters = clusters] :
        method \in {"reassign_identity", "reassign_segid", "reassign_custom",
                    "lpath.match.reassign_identity", "my_module.reassign"},
        we \in BOOLEAN, export_h5 \in BOOLEAN, stats \in BOOLEAN,
        clusters \in {NoneClusters, ParsedClusters(<<>>), ParsedClusters(<< <<"1">> >>)}}
MatrixArgs ==
    {[DefaultArgs EXCEPT !.reassign_method = method, !.dmatrix_remake = remake,
                         !.longest_subsequence = metric, !.dmatrix_parallel = n_jobs,
                         !.dmatrix_save = file_name, !.out_dir = out_dir] :
        method \in {"reassign_identity", "reassign_segid"},
        remake \in BOOLEAN, metric \in BOOLEAN, n_jobs \in {NoneJobs, Jobs(2)},
        file_name \in FileNames, out_dir \in {DefaultOutDir, <<".">>}}
MainArgs == ExportArgs \cup MatrixArgs

\* What earlier runs have left of their distance matrices when a run with
\* --no-remake starts: nothing; the file numpy.save wrote, under the name of
\* --remake-file in the working directory; or that file and one more under
\* the same name in out_dir, written by a run whose --remake-file named it
\* there.  The matrix in them is that of two pathways at distance 1.
StoredMatrix ==
    pairwise_distances(<< <<0>>, <<1>> >>, TRUE, identity_dictionary(2), 1).val
StoredFile(path) == [path |-> Resolve(path), content |-> StoredMatrix]
StoredFiles(args) ==
    IF args.dmatrix_remake THEN {{}}
    ELSE {{}, {StoredFile(args.dmatrix_save)},
          {StoredFile(args.dmatrix_save),
           StoredFile(rsplit_head(args.out_dir) \o args.dmatrix_save)}}

MainInit ==
    /\ pathways = <<>>
    /\ dictionary = <<>>
    /\ distmat = <<>>
    /\ weights = <<>>
    /\ cluster_labels = <<>>
    /\ ret = NoCall
    /\ hist = <<>>
    /\ \E args \in MainArgs :
          /\ \E data \in MainData, stored \in StoredFiles(args) :
                fs = {[path |-> Resolve(args.input_pickle), content |-> data],
                      [path |-> Resolve(args.west_name), content |-> WestArchive(MaxIter)]}
                        \cup stored
          /\ proc = [pc |-> "resolve", args |-> args, reassign |-> "none", data |-> <<>>,
                     fs0 |-> fs, prompts |-> 0, printed |-> 0, status |-> -1, val |-> 0,
                     exc |-> "none", recursionlimit |-> 1000, stack |-> 10,
                     matplotlib |-> "installed", import_frames |-> LoadFrames,
                     warning_frames |-> LoudFrames]
    /\ stdin \in MainTerminals

\* main goes on to the statement next, or ends with the exception exc.
Goes(next, exc) ==
    [proc EXCEPT !.pc = IF exc = "none" THEN next ELSE "raised", !.exc = exc]
Logged(op, exc) == Append(hist, [op |-> op, exc |-> exc])

MainResolve ==
    /\ proc.pc = "resolve"
    /\ LET r == resolve(proc.args.reassign_method)
       IN  /\ proc' = [Goes("load_data", r.exc) EXCEPT !.reassign = r.val]
           /\ hist' = Logged("resolve", r.exc)
           /\ ret' = [op |-> "resolve", exc |-> r.exc]
    /\ UNCHANGED <<pathways, dictionary, distmat, weights, cluster_labels, fs, stdin>>

MainLoad ==
    /\ proc.pc = "load_data"
    /\ LET r == load_data(fs, proc.args.input_pickle)
       IN  /\ proc' = [Goes("reassign", r.exc) EXCEPT !.data = r.data]
           /\ hist' = Logged("load_data", r.exc)
           /\ ret' = [op |-> "load_data", exc |-> r.exc]
           /\ pathways' = r.pathways
    /\ UNCHANGED <<dictionary, distmat, weights, cluster_labels, fs, stdin>>

MainReassign ==
    /\ proc.pc = "reassign"
    /\ LET r == reassign(proc.reassign, proc.data, pathways, fs, proc.args.assign_name)
       IN  /\ proc' = Goes("expand_shorter_traj", r.exc)
           /\ hist' = Logged("reassign", r.exc)
           /\ ret' = [op |-> proc.reassign, exc |-> r.exc]
           /\ pathways' = r.pathways
           /\ dictionary' = r.dictionary
    /\ UNCHANGED <<distmat, weights, cluster_labels, fs, stdin>>

MainExpand ==
    /\ proc.pc = "expand_shorter_traj"
    /\ pathways' = expand_shorter_traj(pathways, dictionary)
    /\ proc' = Goes("gen_dist_matrix", "none")
    /\ hist' = Logged("expand_shorter_traj", "none")
    /\ ret' = [op |-> "expand_shorter_traj", exc |-> "none"]
    /\ UNCHANGED <<dictionary, distmat, weights, cluster_labels, fs, stdin>>

\* gen_dist_matrix(pathways, dictionary, file_name=arguments.dmatrix_save,
\* out_dir=arguments.out_dir, remake=arguments.dmatrix_remake,
\* metric=arguments.longest_subsequence, n_jobs=arguments.dmatrix_parallel)
MainDistMatrix ==
    /\ proc.pc = "gen_dist_matrix"
    /\ gen_dist_matrix(proc.args.dmatrix_save, proc.args.out_dir, proc.args.dmatrix_remake,
                       proc.args.longest_subsequence,
                       effective_n_jobs(proc.args.dmatrix_parallel))
    /\ proc' = Goes("visualize", ret'.exc)
    /\ hist' = Logged("gen_dist_matrix", ret'.exc)
    /\ UNCHANGED stdin

\* visualize(dist_matrix, threshold=arguments.dendrogram_threshold,
\* out_dir=arguments.out_dir, show=arguments.dendrogram_show)
MainVisualize ==
    /\ proc.pc = "visualize"
    /\ LET r == visualize(distmat, proc.args.dendrogram_threshold, proc.args.out_dir,
                          proc.matplotlib, proc.import_frames, proc.warning_frames,
                          proc.stack + 1,
                          proc.recursionlimit, fs)
       IN  /\ proc' = [Goes("determine_rerun", r.exc) EXCEPT
                           !.recursionlimit = r.limit,
                           !.matplotlib = sys_modules(@, r)]
           /\ hist' = Logged("visualize", r.exc)
           /\ ret' = [op |-> "visualize", exc |-> r.exc]
           /\ fs' = r.files
    /\ UNCHANGED <<pathways, dictionary, distmat, weights, cluster_labels, stdin>>

\* ans = input('Do you want to regenerate the graph ...')
MainRerun ==
    /\ proc.pc = "determine_rerun"
    /\ LET r == rerun_pass(proc, stdin, fs)
       IN  /\ proc' = r.proc
           /\ stdin' = r.stdin
           /\ fs' = r.files
    /\ UNCHANGED <<pathways, dictionary, distmat, weights, cluster_labels, ret, hist>>

\* ans2 = input('What new threshold would you like?\n');
\* visualize(dist_matrix, threshold=float(ans2), show=True)
MainRerunThreshold ==
    /\ proc.pc = "rerun_threshold"
    /\ LET r == rerun_yes(proc, stdin, fs, distmat)
       IN  /\ proc' = r.proc
           /\ stdin' = r.stdin
           /\ fs' = r.files
    /\ UNCHANGED <<pathways, dictionary, distmat, weights, cluster_labels, ret, hist>>

\* input("Invalid input.\n")
MainRerunInvalid ==
    /\ proc.pc = "rerun_invalid"
    /\ LET r == rerun_invalid(proc, stdin, fs)
       IN  /\ proc' = r.proc
           /\ stdin' = r.stdin
           /\ fs' = r.files
    /\ UNCHANGED <<pathways, dictionary, distmat, weights, cluster_labels, ret, hist>>

MainAsk ==
    /\ ask_number_cluster
    /\ UNCHANGED <<pathways, dictionary, distmat, weights, cluster_labels, fs, ret, hist>>

\* cluster_labels = hcluster(dist_matrix, ncluster), and report_statistics,
\* which only logs, when arguments.stats is set.
MainCluster ==
    /\ proc.pc = "returned"
    /\ LET r == hcluster(distmat, proc.val)
       IN  /\ proc' = Goes("export_pickle", r.exc)
           /\ hist' = Logged("hcluster", r.exc)
           /\ ret' = [op |-> "hcluster", exc |-> r.exc]
           /\ cluster_labels' = IF r.exc = "none" THEN r.val ELSE cluster_labels
    /\ UNCHANGED <<pathways, dictionary, distmat, weights, fs, stdin>>

\* export_pickle(pathways, arguments.output_pickle);
\* numpy.save(arguments.cl_output, cluster_labels)
MainSave ==
    /\ proc.pc = "export_pickle"
    /\ fs' = numpy_save(WriteFile(fs, proc.args.output_pickle, pathways),
                        proc.args.cl_output, cluster_labels)
    /\ proc' = Goes("export", "none")
    /\ hist' = Logged("export_pickle", "none")
    /\ ret' = [op |-> "export_pickle", exc |-> "none"]
    /\ UNCHANGED <<pathways, dictionary, distmat, weights, cluster_labels, stdin>>

\* if arguments.we and arguments.export_h5: export_we_files(...)
MainExportWe ==
    /\ proc.pc = "export"
    /\ proc.args.we /\ proc.args.export_h5
    /\ export_we_files(proc.args.clusters, proc.args.out_dir, proc.args.west_name)
    /\ proc' = Goes("done", ret'.exc)
    /\ hist' = Logged("export_we_files", ret'.exc)
    /\ UNCHANGED stdin

\* Without the two flags main has no statement left.
MainEnd ==
    /\ proc.pc = "export"
    /\ ~(proc.args.we /\ proc.args.export_h5)
    /\ proc' = Goes("done", "none")
    /\ UNCHANGED <<pathways, dictionary, distmat, weights, cluster_labels, fs, ret, hist,
                   stdin>>

MainNext ==
    \/ MainResolve
    \/ MainLoad
    \/ MainReassign
    \/ MainExpand
    \/ MainDistMatrix
    \/ MainVisualize
    \/ MainRerun
    \/ MainRerunThreshold
    \/ MainRerunInvalid
    \/ MainAsk
    \/ MainCluster
    \/ MainSave
    \/ MainExportWe
    \/ MainEnd

SpecMain == MainInit /\ [][MainNext]_vars

\* The statements main has executed.
Executed == {hist[k].op : k \in 1..Len(hist)}
\* The files of a run's outputs: what was not there, or not so, at its start.
Outputs == {f \in fs : f \notin proc.fs0}
Resolvable(reassign_method) ==
    \/ reassign_method \in preset_reassign
    \/ reassign_method \in DOMAIN Importable

\* C15: a reassign_method that is neither a preset nor resolvable ends main
\* with an error before the input pickle is loaded and before any output is
\* written.
C15_UnknownStrategyAbortsFirst ==
    (/\ ~Resolvable(proc.args.reassign_method)
     /\ proc.pc # "resolve")
    => /\ proc.pc = "raised"
       /\ proc.exc # "none"
       /\ hist = <<[op |-> "resolve", exc |-> proc.exc]>>
       /\ proc.data = <<>>
       /\ pathways = <<>>
       /\ distmat = <<>>
       /\ fs = proc.fs0

C15_Witness ==
    /\ proc.args.reassign_method = "my_module.reassign"
    /\ proc.pc = "raised"
    /\ Len(FileContent(fs, DefaultInputPickle)) = 3

\* C16: load_data on an empty pathway list fails with AssertionError before
\* a container is built, and main then reassigns nothing, computes no
\* distance matrix and writes no output.
C16_EmptyInputStopsAtLoad ==
    (/\ FileContent(proc.fs0, DefaultInputPickle) = <<>>
     /\ "load_data" \in Executed)
    => /\ proc.pc = "raised"
       /\ proc.exc = "AssertionError"
       /\ hist[Len(hist)] = [op |-> "load_data", exc |-> "AssertionError"]
       /\ pathways = <<>>
       /\ dictionary = <<>>
       /\ distmat = <<>>
       /\ Outputs = {}
       /\ fs = proc.fs0

C16_Witness ==
    /\ FileContent(proc.fs0, DefaultInputPickle) = <<>>
    /\ "load_data" \in Executed
    /\ proc.pc = "raised"

\* C19: a run of main that completes has written the representative-weights
\* report: by the ensemble export when it was requested, by the plain export
\* otherwise.
C19_ReportWritten ==
    proc.pc = "done" => exists(fs, RepresentativeFile(proc.args.out_dir))

\* ------------------------------------- the metrics, by their definition
\* The entries of a state sequence that are not the unknown index.
Known(seq) == SelectSeq(seq, LAMBDA x : x # Len(dictionary) - 1)

\* The entries of r at the positions I, in their order.
RECURSIVE Pick(_, _, _)
Pick(r, I, k) ==
    IF k > Len(r) THEN <<>>
    ELSE (IF k \in I THEN <<r[k]>> ELSE <<>>) \o Pick(r, I, k + 1)

\* The length of a longest sequence that is a subsequence of both r1 and r2.
LongestCommonSubsequence(r1, r2) ==
    CHOOSE n \in 0..Len(r1) :
        /\ \E I \in SUBSET (1..Len(r1)), J \in SUBSET (1..Len(r2)) :
              Cardinality(I) = n /\ Pick(r1, I, 1) = Pick(r2, J, 1)
        /\ \A I \in SUBSET (1..Len(r1)), J \in SUBSET (1..Len(r2)) :
              Pick(r1, I, 1) = Pick(r2, J, 1) => Cardinality(I) <= n

\* C23: calc_dist(s1, s2) is 1 - 2 * LCS(r1, r2) / (|r1| + |r2|) for r1, r2
\* the sequences without their unknown entries, so unknown (padding) entries
\* in either sequence do not change the distance.
C23_SubsequenceDistanceFormula ==
    (/\ ret.op = "calc_dist"
     /\ Known(StateColumn(pathways[ret.i])) \o Known(StateColumn(pathways[ret.j])) # <<>>)
    => /\ ret.exc = "none"
       /\ RatEq(ret.val,
                <<Len(Known(StateColumn(pathways[ret.i])))
                    + Len(Known(StateColumn(pathways[ret.j])))
                    - 2 * LongestCommonSubsequence(Known(StateColumn(pathways[ret.i])),
                                                   Known(StateColumn(pathways[ret.j]))),
                  Len(Known(StateColumn(pathways[ret.i])))
                    + Len(Known(StateColumn(pathways[ret.j])))>>)

\* calc_dist on 0! and 01: the padding entry does not count, the distance is
\* 1 - 2 * 1 / (1 + 2) = 1/3.
C23_Witness ==
    /\ ret.op = "calc_dist"
    /\ ret.exc = "none"
    /\ HasPadding(pathways[ret.i])
    /\ ~HasPadding(pathways[ret.j])
    /\ RatEq(ret.val, <<1, 3>>)

\* Direct calls of the two metrics on two state sequences of independent
\* lengths without unknown entries; MaxSeq bounds their length.
MaxSeq == 3

PlainSequences ==
    UNION {{[j \in 1..L |-> RealFrame(j, st[j])] : st \in [1..L -> 0..1]} : L \in 1..MaxSeq}

PairInit ==
    /\ dictionary = identity_dictionary(2)
    /\ pathways \in [1..2 -> PlainSequences]
    /\ distmat = <<>>
    /\ weights = <<>>
    /\ cluster_labels = <<>>
    /\ fs = {}
    /\ ret = NoCall
    /\ hist = <<>>
    /\ proc = NoProc
    /\ stdin = <<>>

PairNext ==
    \/ \E i, j \in 1..2 : CallCalcDist(i, j)
    \/ \E i, j \in 1..2 : CallCalcDistSubstr(i, j)

SpecPair == PairInit /\ [][PairNext]_vars

\* C29: for two state sequences of positive length without unknown entries
\* the substring distance is at least the subsequence distance.
C29_SubstringAtLeastSubsequence ==
    (/\ ret.op = "calc_dist_substr"
     /\ ~HasPadding(pathways[ret.i])
     /\ ~HasPadding(pathways[ret.j]))
    => /\ ret.exc = "none"
       /\ RatLe(<<Len(pathways[ret.i]) + Len(pathways[ret.j])
                    - 2 * LongestCommonSubsequence(StateColumn(pathways[ret.i]),
                                                   StateColumn(pathways[ret.j])),
                  Len(pathways[ret.i]) + Len(pathways[ret.j])>>,
                ret.val)

\* calc_dist_substr on 010 and 00: the longest common substring is 0 and the
\* distance 3/5, while the common subsequence 00 gives 1/5.
C29_Witness ==
    /\ ret.op = "calc_dist_substr"
    /\ ret.exc = "none"
    /\ StateColumn(pathways[ret.i]) = <<0, 1, 0>>
    /\ StateColumn(pathways[ret.j]) = <<0, 0>>
    /\ RatEq(ret.val, <<3, 5>>)

\* ------------------------------------------- the effect of the padding
\* C24: expand_shorter_traj changes nothing but the state_id of padding
\* frames: afterwards every frame with iteration_id = 0 has the state
\* len(dictionary) - 1 and its other fields as before, every other frame is
\* as before, and the dictionary is as before.
C24_OnlyPaddingStateChanges ==
    [][ret'.op = "expand_shorter_traj"
        => /\ dictionary' = dictionary
           /\ Len(pathways') = Len(pathways)
           /\ \A i \in 1..Len(pathways) :
                 /\ Len(pathways'[i]) = Len(pathways[i])
                 /\ \A j \in 1..Len(pathways[i]) :
                       /\ pathways'[i][j][1] = pathways[i][j][1]
                       /\ pathways'[i][j][2] = pathways[i][j][2]
                       /\ pathways'[i][j][4] = pathways[i][j][4]
                       /\ pathways'[i][j][3] =
                             IF pathways[i][j][1] = 0 THEN Len(dictionary) - 1
                             ELSE pathways[i][j][3]]_vars

\* A call that found a real frame in state 1 next to a zero frame, over
\* three states: the zero frame got the state 2 and the real frame kept 1.
C24_Witness ==
    /\ Len(hist) = 1
    /\ Len(dictionary) = 3
    /\ Len(hist[1].before[1]) = 2
    /\ hist[1].before[1][1][1] # 0
    /\ hist[1].before[1][1][3] = 1
    /\ hist[1].before[1][2] = ZeroFrame
    /\ hist[1].after[1] = <<hist[1].before[1][1], <<0, 0, 2, 0>>>>

\* ----------------------------------------------------- the alphabet
\* Reassignment of data whose state ids and segment ids are not the first few
\* integers: the state ids 0, 1 and 10 and the segment ids 0 and 2, in one or
\* two pathways of one or two frames; then the padding, then a direct call of
\* calc_dist on two of the pathways.
WidePathways ==
    UNION {{[k \in 1..r |-> <<r - k + 1, seg[k], st[k], r - k + 1>>]
                : seg \in [1..r -> {0, 2}], st \in [1..r -> {0, 1, 10}]}
            : r \in 1..2}
WideData == UNION {[1..N -> WidePathways] : N \in 1..2}

AlphaInit ==
    /\ pathways = <<>>
    /\ dictionary = <<>>
    /\ distmat = <<>>
    /\ weights = <<>>
    /\ cluster_labels = <<>>
    /\ \E data \in WideData :
          fs = {[path |-> DefaultInputPickle, content |-> data]}
    /\ ret = NoCall
    /\ hist = <<>>
    /\ proc = [pc |-> "load_data", data |-> <<>>, method |-> "none"]
    /\ stdin = <<>>

\* calc_dist on the state columns of pathways i and j of the padded container.
AlphaCalcDist(i, j) ==
    /\ proc.pc = "expanded"
    /\ LET r == calc_dist(StateColumn(pathways[i]), StateColumn(pathways[j]), dictionary)
       IN  ret' = [op |-> "calc_dist", exc |-> r.exc, val |-> r.val, i |-> i, j |-> j]
    /\ proc' = [proc EXCEPT !.pc = "compared"]
    /\ UNCHANGED <<pathways, dictionary, distmat, weights, cluster_labels, fs, hist, stdin>>

AlphaNext ==
    \/ PrepLoad
    \/ \E method \in {"reassign_identity", "reassign_segid"} : PrepReassign(method)
    \/ PrepExpand
    \/ \E i, j \in 1..Len(pathways) : AlphaCalcDist(i, j)

SpecAlphabet == AlphaInit /\ [][AlphaNext]_vars

\* The state ids of the dictionary: its keys without the last, unknown one.
StateKeys == 1..(Len(dictionary) - 1)

\* C21: the dictionary of reassign_identity and of reassign_segid gives each
\* state id a string of exactly one character, different state ids different
\* characters, none of them '!'; so two pathways whose stripped state
\* sequences differ never get the subsequence distance 0.
C21_OneCharacterPerState ==
    /\ proc.pc \in {"expand_shorter_traj", "expanded", "compared"}
          => /\ \A k \in StateKeys : Len(dictionary[k]) = 1 /\ dictionary[k] # <<"!">>
             /\ \A k, m \in StateKeys : dictionary[k] = dictionary[m] => k = m
    /\ (/\ proc.pc = "compared"
        /\ Known(StateColumn(pathways[ret.i])) # Known(StateColumn(pathways[ret.j])))
          => ~(ret.exc = "none" /\ RatEq(ret.val, Zero))

\* The frames of the loaded data, and the segment ids they carry.
DataSegmentIds ==
    UNION {{proc.data[i][k][2] : k \in 1..Len(proc.data[i])} : i \in 1..Len(proc.data)}
MaxSegmentId == CHOOSE m \in DataSegmentIds : \A g \in DataSegmentIds : g <= m

\* C22 as stated: after reassign_segid on frames with M distinct segment ids
\* every state_id lies in 0..M-1 and the dictionary has M letter entries and
\* the unknown entry.
C22_Original ==
    (proc.method = "reassign_segid" /\ proc.pc = "expand_shorter_traj")
    => /\ \A i \in 1..Len(proc.data) : \A j \in 1..Len(proc.data[i]) :
             pathways[i][j][3] \in 0..(Cardinality(DataSegmentIds) - 1)
       /\ Len(dictionary) = Cardinality(DataSegmentIds) + 1

\* C22: after reassign_segid the state_id of every frame of the data is its
\* segment id itself, so equal segment ids are equal state ids and different
\* ones different; the dictionary has one letter entry for every integer from
\* 0 to the largest segment id, distinct letters, and then the unknown entry.
C22_StateIsSegmentId ==
    (proc.method = "reassign_segid" /\ proc.pc = "expand_shorter_traj")
    => /\ \A i \in 1..Len(proc.data) : \A j \in 1..Len(proc.data[i]) :
             /\ pathways[i][j][3] = pathways[i][j][2]
             /\ pathways[i][j][2] = Flip(proc.data[i])[j][2]
       /\ Len(dictionary) = MaxSegmentId + 2
       /\ dictionary[Len(dictionary)] = <<"!">>
       /\ \A k, m \in StateKeys :
             /\ Len(dictionary[k]) = 1
             /\ dictionary[k] = dictionary[m] => k = m

\* Frames with the segment ids 0 and 2: two distinct ids, the states 0 and 2
\* and the letters A, B, C.
C22_Witness ==
    /\ proc.method = "reassign_segid"
    /\ proc.pc = "expand_shorter_traj"
    /\ DataSegmentIds = {0, 2}
    /\ dictionary = <<<<"A">>, <<"B">>, <<"C">>, <<"!">>>>

\* ------------------------------------------- an export after an export
\* Two exports into the same directory.  The first is made when the
\* simulation has run one iteration.  The simulation is then continued, which
\* appends an iteration to west.h5, the pathways are extracted and clustered
\* anew, and the export is made again.  hist keeps what the calls returned.
StaleInit ==
    /\ dictionary = identity_dictionary(2)
    /\ pathways \in WEContainers(1)
    /\ fs = {[path |-> DefaultWestName, content |-> WestArchive(1)]}
    /\ distmat = pairwise_distances([i \in 1..Len(pathways) |-> StateColumn(pathways[i])],
                                    TRUE, dictionary, 1).val
    /\ weights = PathwayWeights(pathways, dictionary, TRUE).val
    /\ cluster_labels \in Labellings(Len(pathways))
    /\ ret = NoCall
    /\ hist = <<>>
    /\ proc = NoProc
    /\ stdin = <<>>

\* One export_we_files call of the two.
StaleExport(clusters) ==
    /\ ret.op = "none"
    /\ Len(hist) < 2
    /\ export_we_files(clusters, DefaultOutDir, DefaultWestName)
    /\ hist' = Append(hist, ret')
    /\ UNCHANGED <<proc, stdin>>

\* Between the exports: west.h5 has one iteration more, and the pathways,
\* their weights and their labels are those of a new extract and match.
ContinueSimulation ==
    /\ ret.op = "export_we_files"
    /\ Len(hist) = 1
    /\ ret' = NoCall
    /\ fs' = WriteFile(fs, DefaultWestName, WestArchive(2))
    /\ pathways' \in WEContainers(2)
    /\ distmat' = pairwise_distances([i \in 1..Len(pathways') |-> StateColumn(pathways'[i])],
                                     TRUE, dictionary, 1).val
    /\ weights' = PathwayWeights(pathways', dictionary, TRUE).val
    /\ cluster_labels' \in Labellings(Len(pathways'))
    /\ UNCHANGED <<dictionary, hist, proc, stdin>>

StaleNext ==
    \/ \E c \in 1..2 : StaleExport(ListClusters(<<c>>))
    \/ ContinueSimulation

SpecStale == StaleInit /\ [][StaleNext]_vars

\* The copy holds the pair with the weight it has in the source.
SourceWeight(source, copy, pair) ==
    /\ SegIndexWrite(pair[1]) \in DOMAIN source.data
    /\ SegIndexWrite(pair[1]) \in DOMAIN copy.data
    /\ copy.data[SegIndexWrite(pair[1])][pair[2] + 1]
           = source.data[SegIndexWrite(pair[1])][pair[2] + 1]

\* C25: every export starts from a fresh copy of the source archive: also
\* when the per-cluster file exists from an earlier export, the file of the
\* cluster exported has, for every member (iteration, segment) pair of that
\* cluster, the weight the pair has in the source archive.
C25_FreshCopyPerExport ==
    (/\ ret.op = "export_we_files"
     /\ MemberPairs(ret.requested[1].val) # {})
    => /\ exists(fs, ClusterFile(ret.out_dir, ret.requested[1]))
       /\ \A pair \in MemberPairs(ret.requested[1].val) :
             SourceWeight(FileContent(fs, DefaultWestName),
                          FileContent(fs, ClusterFile(ret.out_dir, ret.requested[1])),
                          pair)

\* ------------------------------------------- the redraw question
\* determine_rerun on its own: the distance matrix is there, the dendrogram
\* has been drawn once, and the user does up to MaxAnswers things at the
\* terminal.  One step is one input() of the loop.
RerunLines == {Line(<<"y">>), Line(<<"n">>), Line(<<>>), Line(<<"q">>),
               Line(<<"0", ".", "5">>), Line(<<"1", "e", "1">>), Line(<<"i", "n", "f">>),
               Line(<<VerticalTab, "0", ".", "5">>),
               Line(<<"1", ".", "8", "e", "3", "0", "8">>)}
RECURSIVE RerunTerminalsOf(_)
RerunTerminalsOf(n) ==
    IF n = 0 THEN {<<>>}
    ELSE {Append(q, event) : q \in RerunTerminalsOf(n - 1),
                             event \in RerunLines \cup {Interrupt}}
RerunTerminals == UNION {RerunTerminalsOf(n) : n \in 0..MaxAnswers}

RerunInit ==
    /\ dictionary = identity_dictionary(2)
    /\ pathways \in {pws \in ClusterContainers : Len(pws) = 2}
    /\ distmat = pairwise_distances([i \in 1..Len(pathways) |-> StateColumn(pathways[i])],
                                    TRUE, dictionary, 1).val
    /\ weights = <<>>
    /\ cluster_labels = <<>>
    /\ fs = {}
    /\ ret = NoCall
    /\ stdin \in RerunTerminals
    /\ hist = stdin
    /\ proc = [pc |-> "determine_rerun", prompts |-> 0, printed |-> 0,
               status |-> -1, val |-> 0, exc |-> "none", recursionlimit |-> 1000,
               stack |-> 10, matplotlib |-> "installed", import_frames |-> LoadFrames,
                     warning_frames |-> LoudFrames]

determine_rerun ==
    \/ MainRerun
    \/ MainRerunThreshold
    \/ MainRerunInvalid

RerunNext == determine_rerun

SpecRerun == RerunInit /\ [][RerunNext]_vars

Unrecognised(event) ==
    event.key = "line" /\ event.text \notin {<<"y">>, <<"Y">>, <<"n">>, <<"N">>, <<>>}

\* C26: after an unrecognised answer the question is asked again and the next
\* line is read as its answer: when the user types an unrecognised answer and
\* then 'n', the loop has ended once these two lines are read, and no further
\* line has been taken from the terminal.
C26_NextLineAnswersQuestion ==
    (/\ Len(hist) >= 2
     /\ Unrecognised(hist[1])
     /\ hist[2] = Line(<<"n">>)
     /\ Len(Consumed) >= 2)
    => /\ proc.pc = "ask_number_cluster"
       /\ Len(Consumed) = 2

\* ------------------------------------------- the order of the stages
\* The statements main has executed, in their order.
Stages == [k \in 1..Len(hist) |-> hist[k].op]
Pipeline == <<"resolve", "load_data", "reassign", "expand_shorter_traj",
              "gen_dist_matrix", "visualize", "hcluster", "export_pickle">>
Pickled == FileContent(fs, proc.args.output_pickle)

\* pws is the loaded data after reassignment and padding: the frames of every
\* pathway earliest first with a state of the dictionary, then padding frames
\* with the unknown state.
ReassignedAndPadded(pws) ==
    /\ Len(pws) = Len(proc.data)
    /\ \A i \in 1..Len(pws) : \A j \in 1..Len(pws[i]) :
          IF j <= Len(proc.data[i])
          THEN /\ pws[i][j][1] = proc.data[i][Len(proc.data[i]) + 1 - j][1]
               /\ pws[i][j][2] = proc.data[i][Len(proc.data[i]) + 1 - j][2]
               /\ pws[i][j][4] = proc.data[i][Len(proc.data[i]) + 1 - j][4]
               /\ pws[i][j][3] < Len(dictionary) - 1
          ELSE /\ pws[i][j][1] = 0
               /\ pws[i][j][3] = Len(dictionary) - 1

\* The length of a longest sequence that is a block of consecutive entries of
\* both r1 and r2.
LongestCommonSubstring(r1, r2) ==
    CHOOSE n \in 0..Len(r1) :
        /\ \E a \in 0..(Len(r1) - n), b \in 0..(Len(r2) - n) :
              SubSeq(r1, a + 1, a + n) = SubSeq(r2, b + 1, b + n)
        /\ \A m \in (n + 1)..Len(r1) :
              \A a \in 0..(Len(r1) - m), b \in 0..(Len(r2) - m) :
                 SubSeq(r1, a + 1, a + m) # SubSeq(r2, b + 1, b + m)

\* The distance of two state sequences under the metric of the command line,
\* by its definition: over the symbols of the known states and their longest
\* common subsequence, or over all symbols and their longest common substring.
DistanceOf(p, q) ==
    IF proc.args.longest_subsequence
    THEN <<Len(JoinStr(dictionary, Known(p))) + Len(JoinStr(dictionary, Known(q)))
             - 2 * LongestCommonSubsequence(JoinStr(dictionary, Known(p)),
                                            JoinStr(dictionary, Known(q))),
           Len(JoinStr(dictionary, Known(p))) + Len(JoinStr(dictionary, Known(q)))>>
    ELSE <<Len(JoinStr(dictionary, p)) + Len(JoinStr(dictionary, q))
             - 2 * LongestCommonSubstring(JoinStr(dictionary, p), JoinStr(dictionary, q)),
           Len(JoinStr(dictionary, p)) + Len(JoinStr(dictionary, q))>>

\* The matrix in memory holds the distances of the pathways pws.
MatrixOf(pws) ==
    /\ Len(distmat) = Len(pws)
    /\ \A i, j \in 1..Len(pws) :
          /\ Len(distmat[i]) = Len(pws)
          /\ RatEq(distmat[i][j], DistanceOf(StateColumn(pws[i]), StateColumn(pws[j])))

\* The run found the matrix file of an earlier run and was told to keep it.
MatrixKept ==
    /\ ~proc.args.dmatrix_remake
    /\ exists(proc.fs0, rsplit_head(proc.args.out_dir) \o proc.args.dmatrix_save)

\* A run that completes has run the stages once each, in their order.
StagesInOrder ==
    proc.pc = "done"
    => /\ SubSeq(Stages, 1, 8) = Pipeline
       /\ \A k \in 1..Len(hist) : hist[k].exc = "none"
       /\ Len(hist) \in {8, 9}
       /\ Len(hist) = 9 => hist[9].op = "export_we_files"
       /\ exists(fs, proc.args.output_pickle)
       /\ exists(fs, proc.args.cl_output)

\* The two files exist only once clustering has finished, and hold the labels
\* and the reassigned and padded pathways.
WrittenAfterClustering ==
    (exists(fs, proc.args.output_pickle) \/ exists(fs, proc.args.cl_output))
    => /\ Len(hist) >= 8
       /\ hist[7] = [op |-> "hcluster", exc |-> "none"]
       /\ hist[8].op = "export_pickle"
       /\ FileContent(fs, proc.args.cl_output) = cluster_labels
       /\ Pickled = pathways
       /\ ReassignedAndPadded(Pickled)
\* action, that is a store of the constant const into the attribute dest of
\* the namespace.  argparse takes the option strings of the command line from
\* left to right and runs the action of each.
MaxArgs == 3

Options ==
    [x \in {"--use-ray", "--no-ray", "--subsequence", "--substring", "--remake",
            "--no-remake", "--dendrogram-show", "--dendro-hide"} |->
        CASE x = "--use-ray" -> [dest |-> "use_ray", const |-> TRUE]
          [] x = "--no-ray" -> [dest |-> "use_ray", const |-> FALSE]
          [] x = "--subsequence" -> [dest |-> "longest_subsequence", const |-> TRUE]
          [] x = "--substring" -> [dest |-> "longest_subsequence", const |-> FALSE]
          [] x = "--remake" -> [dest |-> "dmatrix_remake", const |-> TRUE]
          [] x = "--no-remake" -> [dest |-> "dmatrix_remake", const |-> FALSE]
          [] x = "--dendrogram-show" -> [dest |-> "dendrogram_show", const |-> TRUE]
          [] x = "--dendro-hide" -> [dest |-> "dendrogram_show", const |-> FALSE]]

\* The pairs: the flag that is the default, and the flag said to override it.
FlagPairs ==
    {<<"--subsequence", "--substring">>, <<"--remake", "--no-remake">>,
     <<"--dendrogram-show", "--dendro-hide">>, <<"--use-ray", "--no-ray">>}

\* The namespace before the first option string: the defaults.
Defaults ==
    [dest \in {"use_ray", "longest_subsequence", "dmatrix_remake", "dendrogram_show"} |->
        TRUE]

\* _StoreConstAction.__call__: setattr(namespace, self.dest, self.const)
store_const(namespace, option) ==
    [namespace EXCEPT ![option.dest] = option.const]

RECURSIVE CommandLinesOf(_)
CommandLinesOf(n) ==
    IF n = 0 THEN {<<>>}
    ELSE {Append(argv, x) : argv \in CommandLinesOf(n - 1), x \in DOMAIN Options}
CommandLines == UNION {CommandLinesOf(n) : n \in 0..MaxArgs}

\* hist is sys.argv after `lpath all`; proc.ray tells whether ray can be
\* imported.
ArgsInit ==
    /\ pathways = <<>>
    /\ dictionary = <<>>
    /\ distmat = <<>>
    /\ weights = <<>>
    /\ cluster_labels = <<>>
    /\ fs = {}
    /\ ret = NoCall
    /\ stdin = <<>>
    /\ hist \in CommandLines
    /\ \E ray \in BOOLEAN :
          proc = [pc |-> "parse_args", rest |-> hist, args |-> Defaults,
                  ray |-> ray]

\* parser.parse_args(), one option string at a time.
ParseOption ==
    /\ proc.pc = "parse_args"
    /\ proc.rest # <<>>
    /\ proc' = [proc EXCEPT !.rest = Tail(@),
                            !.args = store_const(@, Options[Head(proc.rest)])]
    /\ UNCHANGED <<pathways, dictionary, distmat, weights, cluster_labels, fs, ret, hist,
                   stdin>>

\* process_args after parse_args: without an importable ray, use_ray is off.
ProcessArgs ==
    /\ proc.pc = "parse_args"
    /\ proc.rest = <<>>
    /\ proc' = [proc EXCEPT !.pc = "parsed",
                            !.args = IF @["use_ray"] /\ ~proc.ray
                                     THEN [@ EXCEPT !["use_ray"] = FALSE] ELSE @]
    /\ UNCHANGED <<pathways, dictionary, distmat, weights, cluster_labels, fs, ret, hist,
                   stdin>>

ArgsNext ==
    \/ ParseOption
    \/ ProcessArgs

SpecArgs == ArgsInit /\ [][ArgsNext]_vars

Present(x) == \E k \in 1..Len(hist) : hist[k] = x

\* C28: for each of the four flag pairs, whenever the overriding flag is on
\* the command line the parsed value is the overriding flag's value, in
\* whichever order the two flags appear.
C28_OverridingFlagWins ==
    proc.pc = "parsed"
    => \A pair \in FlagPairs :
          Present(pair[2]) => proc.args[Options[pair[2]].dest] = Options[pair[2]].const

====
